---- MODULE Spec2Model ----
(***************************************************************************)
(* Krones ErgoBloc L alarm simulation: the alarm log parser                *)
(* (krones_alarm_data.py) and the simulation engine                        *)
(* (krones_opcua_server.py).                                               *)
(*                                                                         *)
(* Python object references to KronesAlarm instances are modelled as       *)
(* indices into the list that owns the objects (parser.alarms): two equal  *)
(* rows give two objects, hence two indices.  Optional[...] values are     *)
(* <<>> (None) or <<v>>.  Timestamps are integers, in milliseconds.        *)
(***************************************************************************)
EXTENDS Integers, Sequences, FiniteSets, TLC

VARIABLES
    \* ---- KronesAlarmDataParser
    csv,             \* the file at csv_file_path: None (no file) or <<rows>>
    alarms,          \* parser.alarms: the list of KronesAlarm records
    skips,           \* number of "Error parsing alarm row" log entries
    load_result,     \* value returned by the last load_alarm_data(), if any
    loads,           \* number of load_alarm_data() calls made on the parser
    alarm_patterns,  \* parser.alarm_patterns: pattern key -> list of records
    common_patterns, \* the value returned by get_common_alarms(), if called
    duration_stats,  \* the value returned by get_typical_durations(), if called
    tag_log,         \* node writes of the _activate_alarm and _clear_random_alarm
                     \* calls made on the engine before run_simulation()
    sequences,       \* the value returned by get_cascading_sequences()
    seq_called,      \* TRUE once get_cascading_sequences() has returned
    \* ---- KronesErgoBlockOPCUAServer
    alarm_sequences,     \* self.alarm_sequences
    current_alarms,      \* self.current_alarms: list of references into alarms
    production_rate,     \* self.production_rate
    total_production,    \* self.total_production, in 1/3600 container
    simulation_running,  \* self.simulation_running
    server_stopped,      \* stop_server() has stopped self.server
    tags,                \* value of the tracked OPC UA nodes
    line_writer,         \* the process whose write Line_State holds
    prod_pc,             \* _simulate_production: the await it is at
    metrics_pc,          \* _update_process_variables: the await it is at
    alarm_pc,            \* _simulate_real_alarms: the call it is in
    seq_cursor,          \* _trigger_alarm_sequence: chosen sequence, next member
    replayed,            \* members the last _trigger_alarm_sequence call activated
    clearing,            \* _clear_random_alarm: the chosen alarm (0: none)
    last_trigger,        \* the scenario started last, and the time since then
    frames,              \* the coroutine frame of each scenario script
    scenario_toggle,     \* scenario_toggle of _simulate_real_alarms
    since_last_scenario, \* time.monotonic() - last_scenario_time, saturated
    timers,              \* time left of the asyncio.sleep of each task
    failures             \* node writes that raised so far

parser_vars == <<csv, alarms, skips, load_result, loads, alarm_patterns>>
seq_vars == <<sequences, seq_called, common_patterns, duration_stats, tag_log>>
prod_vars == <<production_rate, total_production, prod_pc>>
alarm_task_vars == <<current_alarms, alarm_pc, seq_cursor, frames,
                     scenario_toggle, replayed, clearing, last_trigger>>
run_vars == <<simulation_running, server_stopped>>
engine_vars == <<alarm_sequences, run_vars, tags, line_writer, metrics_pc,
                 since_last_scenario, timers, failures, prod_vars, alarm_task_vars>>
vars == <<parser_vars, seq_vars, engine_vars>>

None == <<>>
Some(v) == <<v>>

(***************************************************************************)
(* Bounds of the model                                                     *)
(***************************************************************************)
MaxAlarms == 6       \* longest parser.alarms list given to the Pattern Index
MaxRows == 3         \* most rows in the CSV file
MaxLoads == 2        \* most load_alarm_data() calls on one parser

\* activation times (ms) the Pattern Index is exercised with: pairs exactly
\* 300 s apart, pairs 300.001 s apart, pairs 1 ms apart and equal times
SeqTimes == {0, 300000, 300001, 600001}

(***************************************************************************)
(* KronesAlarm (dataclass)                                                 *)
(***************************************************************************)
\* millisecond differences d below 2002 for which the double
\* d / 1000.0 * 1000 falls just short of d
ShortProducts == {1001, 1003, 1005, 1007, 1009, 1011, 1013, 1015, 1017, 1019, 1021, 1023}

\* int(delta.total_seconds() * 1000) in IEEE double arithmetic, for a
\* difference of delta_ms milliseconds; int() truncates towards zero
TruncatedMs(delta_ms) ==
    IF delta_ms \in ShortProducts THEN delta_ms - 1
    ELSE IF (0 - delta_ms) \in ShortProducts THEN delta_ms + 1
    ELSE delta_ms

\* __post_init__: the duration is derived when both timestamps are present
post_init_duration(comes, goes) ==
    IF goes # None /\ comes # None
    THEN Some(TruncatedMs(goes[1] - comes[1]))
    ELSE None

KronesAlarm(module, msg_nr, alarm_type, message, sw_ref, comes, goes) ==
    [module |-> module, msg_nr |-> msg_nr, alarm_type |-> alarm_type,
     message |-> message, sw_ref |-> sw_ref,
     comes_timestamp |-> comes, goes_timestamp |-> goes,
     duration_ms |-> post_init_duration(Some(comes), goes)]

(***************************************************************************)
(* KronesAlarmDataParser: alarm_patterns, get_common_alarms,               *)
(* get_typical_durations                                                   *)
(***************************************************************************)
\* f"{alarm.module}_{alarm.alarm_type}": the alarm types hold no underscore,
\* so the key names the pair
PatternKey(alarm) == <<alarm.module, alarm.alarm_type>>

NoPatterns == <<>>

\* _build_alarm_patterns: every record of parser.alarms, from the k-th on, is
\* appended to the bucket of its key
RECURSIVE build_alarm_patterns(_, _, _)
build_alarm_patterns(patterns, al, k) ==
    IF k > Len(al) THEN patterns
    ELSE LET key == PatternKey(al[k])
             bucket == IF key \in DOMAIN patterns THEN patterns[key] ELSE <<>>
         IN  build_alarm_patterns(
                 [q \in (DOMAIN patterns) \cup {key} |->
                     IF q = key THEN Append(bucket, al[k]) ELSE patterns[q]],
                 al, k + 1)

CommonMinimum == 5
CommonLimit == 10

\* variant: the patterns are not cut to their first members
get_common_alarms_uncut(patterns) ==
    [key \in {q \in DOMAIN patterns : Len(patterns[q]) >= CommonMinimum} |->
        patterns[key]]

\* get_common_alarms: alarms[:10] of every pattern with 5 or more records
get_common_alarms(patterns) ==
    [key \in {q \in DOMAIN patterns : Len(patterns[q]) >= CommonMinimum} |->
        SubSeq(patterns[key], 1,
               IF Len(patterns[key]) < CommonLimit THEN Len(patterns[key])
               ELSE CommonLimit)]

\* variant: a record without a duration is counted as a sample of 0 ms
RECURSIVE CollectDurations_no_skip(_, _, _)
CollectDurations_no_skip(duration_lists, al, k) ==
    IF k > Len(al) THEN duration_lists
    ELSE LET key == PatternKey(al[k])
             lst == IF key \in DOMAIN duration_lists THEN duration_lists[key] ELSE <<>>
             sample == IF al[k].duration_ms = <<>> THEN 0 ELSE al[k].duration_ms[1]
         IN  CollectDurations_no_skip(
                 [q \in (DOMAIN duration_lists) \cup {key} |->
                     IF q = key THEN Append(lst, sample) ELSE duration_lists[q]],
                 al, k + 1)

\* the first loop of get_typical_durations: key -> list of duration_ms
RECURSIVE CollectDurations(_, _, _)
CollectDurations(duration_lists, al, k) ==
    IF k > Len(al) THEN duration_lists
    ELSE IF al[k].duration_ms = <<>>
    THEN CollectDurations(duration_lists, al, k + 1)
    ELSE LET key == PatternKey(al[k])
             lst == IF key \in DOMAIN duration_lists THEN duration_lists[key] ELSE <<>>
         IN  CollectDurations(
                 [q \in (DOMAIN duration_lists) \cup {key} |->
                     IF q = key THEN Append(lst, al[k].duration_ms[1])
                     ELSE duration_lists[q]],
                 al, k + 1)

\* sum(), min() and max() of a list of integers
RECURSIVE SumList(_)
SumList(l) == IF l = <<>> THEN 0 ELSE l[1] + SumList(Tail(l))

RECURSIVE MinList(_)
MinList(l) ==
    IF Len(l) = 1 THEN l[1]
    ELSE LET m == MinList(Tail(l)) IN IF l[1] <= m THEN l[1] ELSE m

RECURSIVE MaxList(_)
MaxList(l) ==
    IF Len(l) = 1 THEN l[1]
    ELSE LET m == MaxList(Tail(l)) IN IF l[1] >= m THEN l[1] ELSE m

\* the quotient sum(durations) / len(durations), kept as a fraction
Quotient(num, den) == [num |-> num, den |-> den]

\* one entry of the result of get_typical_durations
DurationEntry(durations) ==
    [mean |-> Quotient(SumList(durations), Len(durations)),
     min |-> MinList(durations),
     max |-> MaxList(durations),
     count |-> Len(durations)]

\* get_typical_durations: statistics of every key with a duration
get_typical_durations(al) ==
    LET duration_lists == CollectDurations(<<>>, al, 1) IN
    [key \in {q \in DOMAIN duration_lists : duration_lists[q] # <<>>} |->
        DurationEntry(duration_lists[key])]

(***************************************************************************)
(* KronesAlarmDataParser.get_cascading_sequences                           *)
(***************************************************************************)
GapSeconds == 300

\* variant: the boundary taken exclusive
WithinGap_exclusive(ts, last_ts) == (ts - last_ts) < 300 * 1000

\* (alarm.comes_timestamp - last_timestamp).total_seconds() <= 300
WithinGap(ts, last_ts) == (ts - last_ts) <= GapSeconds * 1000

\* insertion of the reference i into a list of references already sorted by
\* comes_timestamp, after every reference whose key is not greater
RECURSIVE InsertSorted(_, _, _)
InsertSorted(al, i, s) ==
    IF s = <<>> THEN <<i>>
    ELSE IF al[s[Len(s)]].comes_timestamp <= al[i].comes_timestamp
         THEN Append(s, i)
         ELSE Append(InsertSorted(al, i, SubSeq(s, 1, Len(s) - 1)), s[Len(s)])

\* sorted(self.alarms, key=lambda x: x.comes_timestamp): stable
RECURSIVE SortedPrefix(_, _)
SortedPrefix(al, n) ==
    IF n = 0 THEN <<>>
    ELSE InsertSorted(al, n, SortedPrefix(al, n - 1))

sorted_alarms(al) == SortedPrefix(al, Len(al))

\* the keep rule applied when a running sequence is closed
KeepSequence(current) == Len(current) >= 3

\* variant: the running sequence is not restarted when it is closed
ScanStep_no_restart(al, st, ref) ==
    LET ts == al[ref].comes_timestamp IN
    IF st.last_timestamp = None
    THEN [st EXCEPT !.current_sequence = <<ref>>, !.last_timestamp = Some(ts)]
    ELSE IF (ts - st.last_timestamp[1]) <= 300 * 1000
    THEN [st EXCEPT !.current_sequence = Append(@, ref),
                    !.last_timestamp = Some(ts)]
    ELSE [sequences |-> IF Len(st.current_sequence) >= 3
                        THEN Append(st.sequences, st.current_sequence)
                        ELSE st.sequences,
          current_sequence |-> Append(st.current_sequence, ref),
          last_timestamp |-> Some(ts)]

\* the for loop over sorted_alarms; st is the loop state
\* [sequences, current_sequence, last_timestamp]
ScanStep(al, st, ref) ==
    LET ts == al[ref].comes_timestamp IN
    IF st.last_timestamp = None
    THEN [st EXCEPT !.current_sequence = <<ref>>, !.last_timestamp = Some(ts)]
    ELSE IF WithinGap(ts, st.last_timestamp[1])
    THEN [st EXCEPT !.current_sequence = Append(@, ref),
                    !.last_timestamp = Some(ts)]
    ELSE [sequences |-> IF KeepSequence(st.current_sequence)
                        THEN Append(st.sequences, st.current_sequence)
                        ELSE st.sequences,
          current_sequence |-> <<ref>>,
          last_timestamp |-> Some(ts)]

RECURSIVE ScanLoop(_, _, _, _)
ScanLoop(al, sorted, k, st) ==
    IF k > Len(sorted) THEN st
    ELSE ScanLoop(al, sorted, k + 1, ScanStep(al, st, sorted[k]))

\* variant: the last running sequence is appended without the length test
FlushLast_unchecked(st) == Append(st.sequences, st.current_sequence)

\* variant: the last running sequence is forgotten
FlushLast_forgotten(st) == st.sequences

\* the flush after the loop ("Don't forget the last sequence")
FlushLast(st) ==
    IF KeepSequence(st.current_sequence)
    THEN Append(st.sequences, st.current_sequence)
    ELSE st.sequences

get_cascading_sequences(al) ==
    FlushLast(ScanLoop(al, sorted_alarms(al), 1,
                       [sequences |-> <<>>, current_sequence |-> <<>>,
                        last_timestamp |-> None]))

(***************************************************************************)
(* The CSV export as read by pandas.  A cell is [kind, v]: kind "nan" is   *)
(* a missing cell (NaN).  A timestamp cell is "ms" (matches                *)
(* %m/%d/%Y %H:%M:%S.%f), "sec" (matches %m/%d/%Y %H:%M:%S only) or "bad"   *)
(* (matches neither); v is the instant in ms.  A MsgNr cell is "num" (a    *)
(* number, v its value) or "text" (a non-numeric string).                  *)
(***************************************************************************)
NaN == [kind |-> "nan", v |-> 0]

\* a text is the sequence of its phrases; pandas reads an empty text as NaN.
\* A missing Modul cell is the string "nan".
NoText == <<>>
Cell(kind, v) == [kind |-> kind, v |-> v]

\* columns 10, 11, 19, 34, 35, 36, 37 of a data frame row
Row(alarm_type, comes, goes, modul, msg_nr, event, sw_ref) ==
    [AlarmType |-> alarm_type, Comes |-> comes, Goes |-> goes, Modul |-> modul,
     MsgNr |-> msg_nr, Event |-> event, SWRef |-> sw_ref]

AlarmTypes == {"Warning", "Fault", "FirstFault", "Note", "Debug"}

\* the filter of load_alarm_data: isin([...]) & notna() & notna() & notna()
IsAlarmRow(row) ==
    /\ row.AlarmType \in AlarmTypes
    /\ row.Modul # "nan"
    /\ row.MsgNr.kind # "nan"
    /\ row.Event # NoText

alarm_rows(df) == SelectSeq(df, IsAlarmRow)

\* variant: a text that matches neither format is read as the epoch
parse_timestamp_epoch(cell, wall_clock) ==
    IF cell.kind \in {"ms", "sec"} THEN cell.v ELSE 0

\* _parse_timestamp: millisecond format, then second format, then now()
parse_timestamp(cell, wall_clock) ==
    IF cell.kind = "ms" THEN cell.v
    ELSE IF cell.kind = "sec" THEN cell.v
    ELSE wall_clock

\* int(row.iloc[35]) raises ValueError unless the cell holds a number
IntRaises(cell) == cell.kind # "num"

\* _parse_alarm_row: [alarm |-> Optional record, raised |-> the except
\* branch ran (the row was logged and dropped)]
parse_alarm_row(row, wall_clock) ==
    IF row.Comes.kind = "nan"
    THEN [alarm |-> None, raised |-> FALSE]
    ELSE LET comes_ts == parse_timestamp(row.Comes, wall_clock)
             goes_ts == IF row.Goes.kind # "nan"
                        THEN Some(parse_timestamp(row.Goes, wall_clock))
                        ELSE None
         IN  IF IntRaises(row.MsgNr)
             THEN [alarm |-> None, raised |-> TRUE]
             ELSE [alarm |-> Some(KronesAlarm(row.Modul, row.MsgNr.v, row.AlarmType,
                                              row.Event, row.SWRef, comes_ts, goes_ts)),
                   raised |-> FALSE]

\* variant: a record equal to one already loaded is not appended again
RECURSIVE LoadRows_dedup(_, _, _, _)
LoadRows_dedup(rows, k, wall_clock, st) ==
    IF k > Len(rows) THEN st
    ELSE LET r == parse_alarm_row(rows[k], wall_clock) IN
         LoadRows_dedup(rows, k + 1, wall_clock,
                  [alarms |-> IF /\ r.alarm # None
                                 /\ \A j \in 1..Len(st.alarms) : st.alarms[j] # r.alarm[1]
                              THEN Append(st.alarms, r.alarm[1])
                              ELSE st.alarms,
                   skips |-> IF r.raised THEN st.skips + 1 ELSE st.skips])

\* variant: the loop over the rows ends at the first row that raised
RECURSIVE LoadRows_abort(_, _, _, _)
LoadRows_abort(rows, k, wall_clock, st) ==
    IF k > Len(rows) THEN st
    ELSE LET r == parse_alarm_row(rows[k], wall_clock) IN
         IF r.raised THEN [st EXCEPT !.skips = @ + 1]
         ELSE LoadRows_abort(rows, k + 1, wall_clock,
                  [alarms |-> IF r.alarm # None THEN Append(st.alarms, r.alarm[1])
                              ELSE st.alarms,
                   skips |-> st.skips])

\* the loop "for _, row in alarm_rows.iterrows()"; st is [alarms, skips]
RECURSIVE LoadRows(_, _, _, _)
LoadRows(rows, k, wall_clock, st) ==
    IF k > Len(rows) THEN st
    ELSE LET r == parse_alarm_row(rows[k], wall_clock) IN
         LoadRows(rows, k + 1, wall_clock,
                  [alarms |-> IF r.alarm # None THEN Append(st.alarms, r.alarm[1])
                              ELSE st.alarms,
                   skips |-> IF r.raised THEN st.skips + 1 ELSE st.skips])

(***************************************************************************)
(* KronesErgoBlockOPCUAServer: the simulation engine.                      *)
(*                                                                         *)
(* The three coroutines of run_simulation() are interleaved at their       *)
(* awaits.  Time is counted in units of 10 s: a sleep shorter than one     *)
(* unit only yields.  A node write (write_value) either stores the value   *)
(* or raises.  Only the nodes in the domain of tags keep their value.       *)
(* Consecutive writes of one task to nodes that no other task reads or     *)
(* writes are taken in one step, up to the first write that raises: the    *)
(* other tasks cannot tell the difference.  The writes to Line_State and   *)
(* to the scenario nodes, and every read of current_alarms, keep their     *)
(* own step.                                                               *)
(***************************************************************************)
MaxActive == 2        \* longest current_alarms list
MaxFailures == 1      \* most node writes that raise in one run
MaxProduction == 18000    \* largest total_production, in 1/3600 container

ScenarioInterval == 3     \* scenario_interval = 30 s
DwellTime == 1            \* asyncio.sleep(10) of the scenario scripts
MetricsBackoff == 1       \* asyncio.sleep(10.0) after a metrics error
BaseProductionRate == 18000

Tasks == {"production", "alarms", "metrics"}
Scenarios == {"A", "B"}

Min(a, b) == IF a < b THEN a ELSE b
Max(a, b) == IF a > b THEN a ELSE b

\* ---- the address space (the nodes whose value the model keeps)
InitialTags ==
    [t \in {"Process.Line_State"} |-> "RUNNING"] @@
    [t \in {"MMA.State"} |-> "STOPPED"] @@
    [t \in {"MMA.Active_Alarms", "MMA.Warning_Count", "MMA.Fault_Count"} |-> 0] @@
    [t \in {"MMA.MotorProtector_100", "MMA.MotorProtector_101",
            "MMA.MotorProtector_103", "MMA.ESTOP_Triggered",
            "BAS.PowerLoss", "BAS.ProfibusFault",
            "MMA.LevelTooHigh_LT100", "MMA.GuardDoorOpen_1",
            "MMA.OperatorPanelAccess", "MMA.GuardDoorReset"} |-> FALSE]

TrackedTags == DOMAIN InitialTags

\* node.write_value(value) that does not raise
WriteValue(tg, tag, value) ==
    IF tag \in DOMAIN tg THEN [tg EXCEPT ![tag] = value] ELSE tg

\* the first k writes of a list of <<node, value>> writes, in order: write k
\* is applied to the values the writes before it have left
RECURSIVE ApplyWrites(_, _, _)
ApplyWrites(tg, writes, k) ==
    IF k = 0 THEN tg
    ELSE CHOOSE after \in {WriteValue(before, writes[k][1], writes[k][2]) :
                              before \in {ApplyWrites(tg, writes, k - 1)}} : TRUE

\* ---- message texts: str.lower() and the substring test
LowerPhrase(p) ==
    CASE p = "Guard door" -> "guard door"
      [] p = "Fault routine" -> "fault routine"
      [] p = "Manual" -> "manual"
      [] p = "BCM server" -> "bcm server"
      [] p = "Power supply" -> "power supply"
      [] p = "Stretching drive" -> "stretching drive"
      [] p = "Station: 12" -> "station: 12"
      [] p = "Level" -> "level"
      [] p = "LT100" -> "lt100"
      [] p = "MANUAL" -> "manual"
      [] p = "Servo drive" -> "servo drive"
      [] p = "Bus error" -> "bus error"
      [] OTHER -> p

Lower(text) == [k \in 1..Len(text) |-> LowerPhrase(text[k])]

\* needle in text
Contains(text, needle) == \E k \in 1..Len(text) : text[k] = needle

\* ---- _activate_alarm: the node writes that follow the append
Deviations == {5, 15}     \* values of random.uniform(5.0, 15.0)

\* variant: the guard-door rule of MMA is tested before the other rules
ActivationWrites_door_first(alarm, deviation) ==
    LET low == Lower(alarm.message) IN
    IF alarm.module = "MMA" THEN
        IF Contains(low, "guard door") THEN <<<<"MMA.Guard_Door_1", FALSE>>>>
        ELSE IF Contains(low, "fault routine") THEN <<<<"MMA.Fault_Routine_Active", TRUE>>>>
        ELSE IF Contains(low, "manual") THEN <<<<"MMA.Manual_Override", TRUE>>>>
        ELSE IF Contains(low, "dehumidifier") THEN <<<<"MMA.Air_Dehumidifier", FALSE>>>>
        ELSE IF Contains(low, "level") /\ Contains(alarm.message, "LT100")
             THEN <<<<"MMA.Level_LT100", 95>>>>
        ELSE IF Contains(low, "container transfer") THEN <<<<"MMA.Container_Transfer", FALSE>>>>
        ELSE IF Contains(low, "cap feed") THEN <<<<"MMA.Cap_Feed_Unit", FALSE>>>>
        ELSE <<>>
    ELSE IF alarm.module = "BAS" THEN
        IF Contains(low, "BCM server")
        THEN <<<<"BAS.BCM_Server_Status", "OFFLINE">>, <<"BAS.Communication_Health", 0>>>>
        ELSE <<>>
    ELSE IF alarm.module = "SDC" THEN
        IF Contains(low, "power supply") THEN <<<<"SDC.Power_Supply_Status", "FAULT">>>>
        ELSE IF Contains(low, "servo drive") THEN <<<<"SDC.Servo_Drive_Status", "FAULT">>>>
        ELSE IF Contains(low, "brake") THEN <<<<"SDC.Service_Brake_Torque", 50>>>>
        ELSE <<>>
    ELSE IF alarm.module = "SBC" THEN
        IF Contains(low, "stretching drive")
        THEN <<<<"SBC.Position_Deviation", deviation>>>> \o
             (IF Contains(alarm.message, "station: 12")
              THEN <<<<"SBC.Stretching_Drive_12", deviation>>>>
              ELSE IF Contains(alarm.message, "station: 13")
              THEN <<<<"SBC.Stretching_Drive_13", deviation>>>>
              ELSE IF Contains(alarm.message, "station: 14")
              THEN <<<<"SBC.Stretching_Drive_14", deviation>>>>
              ELSE <<>>)
        ELSE <<>>
    ELSE <<>>

ActivationWrites(alarm, deviation) ==
    LET low == Lower(alarm.message) IN
    IF alarm.module = "MMA" THEN
        IF Contains(low, "fault routine") THEN <<<<"MMA.Fault_Routine_Active", TRUE>>>>
        ELSE IF Contains(low, "manual") THEN <<<<"MMA.Manual_Override", TRUE>>>>
        ELSE IF Contains(low, "dehumidifier") THEN <<<<"MMA.Air_Dehumidifier", FALSE>>>>
        ELSE IF Contains(low, "guard door") THEN <<<<"MMA.Guard_Door_1", FALSE>>>>
        ELSE IF Contains(low, "level") /\ Contains(alarm.message, "LT100")
             THEN <<<<"MMA.Level_LT100", 95>>>>
        ELSE IF Contains(low, "container transfer") THEN <<<<"MMA.Container_Transfer", FALSE>>>>
        ELSE IF Contains(low, "cap feed") THEN <<<<"MMA.Cap_Feed_Unit", FALSE>>>>
        ELSE <<>>
    ELSE IF alarm.module = "BAS" THEN
        IF Contains(low, "BCM server")
        THEN <<<<"BAS.BCM_Server_Status", "OFFLINE">>, <<"BAS.Communication_Health", 0>>>>
        ELSE <<>>
    ELSE IF alarm.module = "SDC" THEN
        IF Contains(low, "power supply") THEN <<<<"SDC.Power_Supply_Status", "FAULT">>>>
        ELSE IF Contains(low, "servo drive") THEN <<<<"SDC.Servo_Drive_Status", "FAULT">>>>
        ELSE IF Contains(low, "brake") THEN <<<<"SDC.Service_Brake_Torque", 50>>>>
        ELSE <<>>
    ELSE IF alarm.module = "SBC" THEN
        IF Contains(low, "stretching drive")
        THEN <<<<"SBC.Position_Deviation", deviation>>>> \o
             (IF Contains(alarm.message, "station: 12")
              THEN <<<<"SBC.Stretching_Drive_12", deviation>>>>
              ELSE IF Contains(alarm.message, "station: 13")
              THEN <<<<"SBC.Stretching_Drive_13", deviation>>>>
              ELSE IF Contains(alarm.message, "station: 14")
              THEN <<<<"SBC.Stretching_Drive_14", deviation>>>>
              ELSE <<>>)
        ELSE <<>>
    ELSE <<>>

\* ---- _clear_random_alarm: the node writes that follow the remove
\* variant: clearing an SBC record resets Position_Deviation only
ClearWrites_position_only(alarm) ==
    LET low == Lower(alarm.message) IN
    IF alarm.module = "MMA" THEN
        IF Contains(low, "fault routine") THEN <<<<"MMA.Fault_Routine_Active", FALSE>>>>
        ELSE IF Contains(low, "manual") THEN <<<<"MMA.Manual_Override", FALSE>>>>
        ELSE IF Contains(low, "dehumidifier") THEN <<<<"MMA.Air_Dehumidifier", TRUE>>>>
        ELSE IF Contains(low, "guard door") THEN <<<<"MMA.Guard_Door_1", TRUE>>>>
        ELSE IF Contains(low, "level") /\ Contains(alarm.message, "LT100")
             THEN <<<<"MMA.Level_LT100", 50>>>>
        ELSE IF Contains(low, "container transfer") THEN <<<<"MMA.Container_Transfer", TRUE>>>>
        ELSE IF Contains(low, "cap feed") THEN <<<<"MMA.Cap_Feed_Unit", TRUE>>>>
        ELSE <<>>
    ELSE IF alarm.module = "BAS" THEN
        <<<<"BAS.BCM_Server_Status", "ONLINE">>, <<"BAS.Communication_Health", 100>>>>
    ELSE IF alarm.module = "SDC" THEN
        <<<<"SDC.Power_Supply_Status", "OK">>, <<"SDC.Servo_Drive_Status", "OK">>,
          <<"SDC.Service_Brake_Torque", 100>>>>
    ELSE IF alarm.module = "SBC" THEN
        <<<<"SBC.Position_Deviation", 0>>>>
    ELSE <<>>

ClearWrites(alarm) ==
    LET low == Lower(alarm.message) IN
    IF alarm.module = "MMA" THEN
        IF Contains(low, "fault routine") THEN <<<<"MMA.Fault_Routine_Active", FALSE>>>>
        ELSE IF Contains(low, "manual") THEN <<<<"MMA.Manual_Override", FALSE>>>>
        ELSE IF Contains(low, "dehumidifier") THEN <<<<"MMA.Air_Dehumidifier", TRUE>>>>
        ELSE IF Contains(low, "guard door") THEN <<<<"MMA.Guard_Door_1", TRUE>>>>
        ELSE IF Contains(low, "level") /\ Contains(alarm.message, "LT100")
             THEN <<<<"MMA.Level_LT100", 50>>>>
        ELSE IF Contains(low, "container transfer") THEN <<<<"MMA.Container_Transfer", TRUE>>>>
        ELSE IF Contains(low, "cap feed") THEN <<<<"MMA.Cap_Feed_Unit", TRUE>>>>
        ELSE <<>>
    ELSE IF alarm.module = "BAS" THEN
        <<<<"BAS.BCM_Server_Status", "ONLINE">>, <<"BAS.Communication_Health", 100>>>>
    ELSE IF alarm.module = "SDC" THEN
        <<<<"SDC.Power_Supply_Status", "OK">>, <<"SDC.Servo_Drive_Status", "OK">>,
          <<"SDC.Service_Brake_Torque", 100>>>>
    ELSE IF alarm.module = "SBC" THEN
        <<<<"SBC.Position_Deviation", 0>>, <<"SBC.Stretching_Drive_12", 0>>,
          <<"SBC.Stretching_Drive_13", 0>>, <<"SBC.Stretching_Drive_14", 0>>>>
    ELSE <<>>

\* list.remove(x): the first element equal to x is removed; an element is a
\* reference, and references are equal when their records are equal
RemoveFirst(lst, pool, ref) ==
    LET k == CHOOSE i \in 1..Len(lst) :
                 /\ pool[lst[i]] = pool[ref]
                 /\ \A j \in 1..(i - 1) : pool[lst[j]] # pool[ref]
    IN  SubSeq(lst, 1, k - 1) \o SubSeq(lst, k + 1, Len(lst))

\* 'Fault' in a.alarm_type
IsFaultType(alarm_type) == alarm_type \in {"Fault", "FirstFault"}

\* variant: only the alarm type "Fault" itself is counted
FaultCount_exact(lst, pool) ==
    Cardinality({k \in 1..Len(lst) : pool[lst[k]].alarm_type = "Fault"})

FaultCount(lst, pool) ==
    Cardinality({k \in 1..Len(lst) : IsFaultType(pool[lst[k]].alarm_type)})

WarningCount(lst, pool) ==
    Cardinality({k \in 1..Len(lst) : pool[lst[k]].alarm_type = "Warning"})

\* _update_alarm_counters
CounterWrites(lst, pool) ==
    <<<<"MMA.Active_Alarms", Len(lst)>>,
      <<"MMA.Warning_Count", WarningCount(lst, pool)>>,
      <<"MMA.Fault_Count", FaultCount(lst, pool)>>>>

\* ---- the scenario scripts: the awaits of _trigger_scenario_a / _b in order
WriteOp(tag, value) == [op |-> "write", tag |-> tag, val |-> value, d |-> 0]
SleepOp(units) == [op |-> "sleep", tag |-> "", val |-> FALSE, d |-> units]

ScenarioA ==
    << WriteOp("Process.Line_State", "STOPPED"),
       WriteOp("MMA.MotorProtector_100", TRUE), SleepOp(0),
       WriteOp("MMA.MotorProtector_101", TRUE), SleepOp(0),
       WriteOp("MMA.MotorProtector_103", TRUE), SleepOp(0),
       WriteOp("MMA.ESTOP_Triggered", TRUE), SleepOp(0),
       WriteOp("BAS.PowerLoss", TRUE), SleepOp(0),
       WriteOp("BAS.ProfibusFault", TRUE),
       SleepOp(DwellTime),
       WriteOp("MMA.MotorProtector_100", FALSE),
       WriteOp("MMA.MotorProtector_101", FALSE),
       WriteOp("MMA.MotorProtector_103", FALSE),
       WriteOp("MMA.ESTOP_Triggered", FALSE),
       WriteOp("BAS.PowerLoss", FALSE),
       WriteOp("BAS.ProfibusFault", FALSE),
       WriteOp("Process.Line_State", "RUNNING") >>

\* variant: a node of scenario B is reset before the dwell
ScenarioB_early_reset ==
    << WriteOp("Process.Line_State", "STOPPED"),
       WriteOp("MMA.LevelTooHigh_LT100", TRUE), SleepOp(0),
       WriteOp("MMA.GuardDoorOpen_1", TRUE), SleepOp(0),
       WriteOp("MMA.OperatorPanelAccess", TRUE), SleepOp(0),
       WriteOp("MMA.GuardDoorReset", TRUE),
       WriteOp("MMA.LevelTooHigh_LT100", FALSE),
       SleepOp(DwellTime),
       WriteOp("MMA.GuardDoorOpen_1", FALSE),
       WriteOp("MMA.OperatorPanelAccess", FALSE),
       WriteOp("MMA.GuardDoorReset", FALSE),
       WriteOp("Process.Line_State", "RUNNING") >>

ScenarioB ==
    << WriteOp("Process.Line_State", "STOPPED"),
       WriteOp("MMA.LevelTooHigh_LT100", TRUE), SleepOp(0),
       WriteOp("MMA.GuardDoorOpen_1", TRUE), SleepOp(0),
       WriteOp("MMA.OperatorPanelAccess", TRUE), SleepOp(0),
       WriteOp("MMA.GuardDoorReset", TRUE),
       SleepOp(DwellTime),
       WriteOp("MMA.LevelTooHigh_LT100", FALSE),
       WriteOp("MMA.GuardDoorOpen_1", FALSE),
       WriteOp("MMA.OperatorPanelAccess", FALSE),
       WriteOp("MMA.GuardDoorReset", FALSE),
       WriteOp("Process.Line_State", "RUNNING") >>

Script(s) == IF s = "A" THEN ScenarioA ELSE ScenarioB

\* a coroutine frame of a script: ip is the await it is at (0: no frame),
\* log the writes and the dwell it has done, since the time since the
\* caller read time.monotonic(), timer the time left of its asyncio.sleep
IdleFrame == [ip |-> 0, log |-> <<>>, since |-> 0, timer |-> 0]
NewFrame == [ip |-> 1, log |-> <<>>, since |-> 0, timer |-> 0]
Running(s) == frames[s].ip > 0

\* ---- _simulate_production
\* variant: the efficiency factor 1 - 0.1 n without its floor of 0.2
ProductionRate_no_floor(n) ==
    IF n = 0 THEN BaseProductionRate
    ELSE IF n = 6 THEN 7199
    ELSE IF n = 7 THEN 5399
    ELSE (BaseProductionRate \div 10) * Max(0, 10 - n)

\* int(base_production_rate * efficiency_factor) in IEEE double arithmetic
ProductionRate(n) ==
    IF n = 0 THEN BaseProductionRate
    ELSE IF n = 6 THEN 7199
    ELSE IF n = 7 THEN 5399
    ELSE (BaseProductionRate \div 10) * Max(2, 10 - n)

\* variant: any active alarm gives WARNING, a fault is looked for after that
MachineState_warning_first(lst, pool, rate) ==
    IF Len(lst) > 0 THEN "WARNING"
    ELSE IF FaultCount(lst, pool) > 0 THEN "FAULT"
    ELSE IF rate > 1000 THEN "RUNNING"
    ELSE "STOPPED"

\* the label written to mma_nodes["State"]
MachineState(lst, pool, rate) ==
    IF FaultCount(lst, pool) > 0 THEN "FAULT"
    ELSE IF Len(lst) > 0 THEN "WARNING"
    ELSE IF rate > 1000 THEN "RUNNING"
    ELSE "STOPPED"

\* no scenario has been started yet; since counts from the start of the task
NoTrigger == [scenario |-> "", since |-> 0]

\* the state before run_simulation() is entered
EngineNotStarted ==
    /\ alarm_sequences = <<>>
    /\ current_alarms = <<>>
    /\ production_rate = 0
    /\ total_production = 0
    /\ simulation_running = FALSE
    /\ server_stopped = FALSE
    /\ tags = InitialTags
    /\ line_writer = "setup"
    /\ prod_pc = "p_rate"
    /\ metrics_pc = "m_tick"
    /\ alarm_pc = "a_loop"
    /\ seq_cursor = <<0, 0>>
    /\ replayed = <<>>
    /\ clearing = 0
    /\ last_trigger = NoTrigger
    /\ frames = [s \in Scenarios |-> IdleFrame]
    /\ scenario_toggle = FALSE
    /\ since_last_scenario = 0
    /\ timers = [t \in Tasks |-> 0]
    /\ failures = 0
    /\ tag_log = <<>>

(***************************************************************************)
(* Specification of the Pattern Index: the parser holds any list of at     *)
(* most MaxAlarms records and get_cascading_sequences() is called on it.   *)
(***************************************************************************)
SeqRecord(ts) == KronesAlarm("MMA", 1, "Warning", <<"other">>, "ref", ts, None)

RECURSIVE ListsUpTo(_, _)
ListsUpTo(S, n) ==
    IF n = 0 THEN {<<>>}
    ELSE LET shorter == ListsUpTo(S, n - 1) IN
         shorter \cup {Append(l, x) : l \in {m \in shorter : Len(m) = n - 1}, x \in S}

SeqInit ==
    /\ alarms \in ListsUpTo({SeqRecord(t) : t \in SeqTimes}, MaxAlarms)
    /\ csv = None /\ skips = 0 /\ load_result = None /\ loads = 0
    /\ alarm_patterns = build_alarm_patterns(NoPatterns, alarms, 1)
    /\ EngineNotStarted
    /\ sequences = <<>>
    /\ seq_called = FALSE
    /\ common_patterns = None
    /\ duration_stats = None

GetCascadingSequences ==
    /\ ~seq_called
    /\ sequences' = get_cascading_sequences(alarms)
    /\ seq_called' = TRUE
    /\ UNCHANGED <<parser_vars, engine_vars, common_patterns, duration_stats, tag_log>>

SeqNext == GetCascadingSequences

SpecSeq == SeqInit /\ [][SeqNext]_vars

(***************************************************************************)
(* Specification of the pattern views: the parser has loaded one file that *)
(* gave either up to MaxGroup records of two groups, numbered in file      *)
(* order, or up to MaxSamples records of two groups with or without a      *)
(* duration; get_common_alarms() and get_typical_durations() are called.   *)
(***************************************************************************)
MaxGroup == 12
MaxSamples == 3

PatternTypes == {"Warning", "Fault"}
SampleDurations == {100, 200, 300}

NumberedRecord(n, alarm_type) ==
    KronesAlarm("MMA", n, alarm_type, <<"other">>, "ref", 0, None)

SampleRecord(alarm_type, goes) ==
    KronesAlarm("MMA", 1, alarm_type, <<"other">>, "ref", 0, goes)

NumberedLists(longest) ==
    UNION {{[n \in 1..len |-> NumberedRecord(n, types[n])] :
               types \in [1..len -> PatternTypes]} : len \in 0..longest}

SampleLists(longest) ==
    ListsUpTo({SampleRecord(t, g) : t \in PatternTypes,
                                    g \in {None} \cup {Some(d) : d \in SampleDurations}},
              longest)

PatternsInit ==
    /\ alarms \in NumberedLists(MaxGroup) \cup SampleLists(MaxSamples)
    /\ csv = None /\ skips = 0 /\ load_result = Some(TRUE) /\ loads = 1
    /\ alarm_patterns = build_alarm_patterns(NoPatterns, alarms, 1)
    /\ EngineNotStarted
    /\ sequences = <<>>
    /\ seq_called = FALSE
    /\ common_patterns = None
    /\ duration_stats = None

GetCommonAlarms ==
    /\ common_patterns = None
    /\ common_patterns' = Some(get_common_alarms(alarm_patterns))
    /\ UNCHANGED <<parser_vars, engine_vars, sequences, seq_called, duration_stats, tag_log>>

GetTypicalDurations ==
    /\ duration_stats = None
    /\ duration_stats' = Some(get_typical_durations(alarms))
    /\ UNCHANGED <<parser_vars, engine_vars, sequences, seq_called, common_patterns, tag_log>>

PatternsNext == GetCommonAlarms \/ GetTypicalDurations

SpecPatterns == PatternsInit /\ [][PatternsNext]_vars

(***************************************************************************)
(* Specification of the parser: a CSV file of at most MaxRows rows (or no  *)
(* file) and a parser on which load_alarm_data() is called.                *)
(***************************************************************************)
WallClock == {900000, 900001}     \* values datetime.now() returns

RowPool ==
    { Row("Warning", Cell("ms", 0), Cell("ms", 1500), "MMA", Cell("num", 7), <<"Guard door", "open">>, "r1"),
      Row("Fault", Cell("sec", 0), NaN, "SDC", Cell("num", 7), <<"power supply">>, "r2"),
      Row("Fault", Cell("ms", 0), Cell("ms", -2000), "MMA", Cell("num", 8), <<"Fault routine">>, "r3"),
      Row("FirstFault", Cell("ms", 0), NaN, "MMA", Cell("text", 0), <<"Guard door">>, "r4"),
      Row("Note", NaN, NaN, "BAS", Cell("num", 9), <<"BCM server">>, "r5"),
      Row("Debug", NaN, NaN, "BAS", Cell("text", 0), <<"BCM server">>, "r6"),
      Row("Debug", Cell("bad", 0), Cell("bad", 0), "SBC", Cell("num", 9), <<"Stretching drive", "station: 12">>, "r7"),
      Row("Info", Cell("ms", 0), NaN, "MMA", Cell("num", 7), <<"Guard door">>, "r8"),
      Row("Warning", Cell("ms", 0), NaN, "nan", Cell("num", 7), <<"Guard door">>, "r9"),
      Row("Warning", Cell("ms", 0), NaN, "MMA", NaN, <<"Guard door">>, "r10"),
      Row("Warning", Cell("ms", 0), NaN, "MMA", Cell("num", 7), NoText, "r11"),
      Row("Note", Cell("ms", 0), Cell("ms", 1001), "BCM", Cell("num", 3), <<"Bus error">>, "r12") }

ParseInit ==
    /\ csv \in {None} \cup {Some(df) : df \in ListsUpTo(RowPool, MaxRows)}
    /\ alarms = <<>>
    /\ skips = 0
    /\ load_result = None
    /\ loads = 0
    /\ alarm_patterns = NoPatterns
    /\ sequences = <<>>
    /\ seq_called = FALSE
    /\ common_patterns = None
    /\ duration_stats = None
    /\ EngineNotStarted

\* load_alarm_data(): False when the file does not exist, else every
\* alarm row is parsed and appended
LoadAlarmData ==
    /\ loads < MaxLoads
    /\ loads' = loads + 1
    /\ IF csv = None
       THEN /\ load_result' = Some(FALSE)
            /\ UNCHANGED <<alarms, skips, alarm_patterns>>
       ELSE \E wall_clock \in WallClock :
               LET st == LoadRows(alarm_rows(csv[1]), 1, wall_clock,
                                  [alarms |-> alarms, skips |-> skips])
               IN  /\ alarms' = st.alarms
                   /\ skips' = st.skips
                   /\ alarm_patterns' = build_alarm_patterns(alarm_patterns, st.alarms, 1)
                   /\ load_result' = Some(TRUE)
    /\ UNCHANGED <<csv, seq_vars, engine_vars>>

ParseNext == LoadAlarmData

SpecParse == ParseInit /\ [][ParseNext]_vars

(***************************************************************************)
(* Specification of the engine: load_alarm_data() has succeeded on one of  *)
(* the files of EngineFiles and run_simulation() runs its three tasks.     *)
(***************************************************************************)
EngineFiles ==
    { <<>>,
      << Row("Warning", Cell("ms", 0), NaN, "MMA", Cell("num", 7), <<"Guard door">>, "r1") >>,
      << Row("Fault", Cell("ms", 0), NaN, "MMA", Cell("num", 8), <<"Fault routine">>, "r3"),
         Row("Warning", Cell("ms", 1000), NaN, "SDC", Cell("num", 7), <<"Power supply">>, "r2"),
         Row("Note", Cell("ms", 2000), NaN, "BAS", Cell("num", 9), <<"BCM server">>, "r5") >> }

Init ==
    \E file \in {None} \cup {Some(df) : df \in EngineFiles}, wall_clock \in WallClock :
        LET alarm_data_loaded == file # None
            st == IF alarm_data_loaded
                  THEN LoadRows(alarm_rows(file[1]), 1, wall_clock,
                                [alarms |-> <<>>, skips |-> 0])
                  ELSE [alarms |-> <<>>, skips |-> 0]
            sq == IF alarm_data_loaded THEN get_cascading_sequences(st.alarms) ELSE <<>>
        IN  /\ csv = file
            /\ alarms = st.alarms
            /\ skips = st.skips
            /\ load_result = Some(alarm_data_loaded)
            /\ loads = 1
            /\ alarm_patterns = build_alarm_patterns(NoPatterns, st.alarms, 1)
            /\ sequences = sq
            /\ seq_called = alarm_data_loaded
            /\ common_patterns = None
            /\ duration_stats = None
            /\ alarm_sequences = sq
            /\ current_alarms = <<>>
            /\ production_rate = 0
            /\ total_production = 0
            /\ simulation_running = alarm_data_loaded
            /\ server_stopped = FALSE
            /\ tags = InitialTags
            /\ line_writer = "setup"
            /\ prod_pc = (IF alarm_data_loaded THEN "p_rate" ELSE "off")
            /\ metrics_pc = (IF alarm_data_loaded THEN "m_tick" ELSE "off")
            /\ alarm_pc = (IF alarm_data_loaded THEN "a_loop" ELSE "off")
            /\ seq_cursor = <<0, 0>>
            /\ replayed = <<>>
            /\ clearing = 0
            /\ last_trigger = NoTrigger
            /\ frames = [s \in Scenarios |-> IdleFrame]
            /\ scenario_toggle = FALSE
            /\ since_last_scenario = 0
            /\ timers = [t \in Tasks |-> 0]
            /\ failures = 0
            /\ tag_log = <<>>

\* a node write raises
Raises ==
    /\ failures < MaxFailures
    /\ failures' = failures + 1

Saturate(t) == Min(t, ScenarioInterval + 1)

\* one time unit passes for the tasks that exist
Tick ==
    /\ \E pc \in {prod_pc, metrics_pc, alarm_pc} : pc # "off"
    /\ since_last_scenario' = Saturate(since_last_scenario + 1)
    /\ frames' = [s \in Scenarios |->
                    IF frames[s].ip > 0
                    THEN [frames[s] EXCEPT !.since = Saturate(@ + 1),
                                           !.timer = Max(@ - 1, 0)]
                    ELSE frames[s]]
    /\ timers' = [t \in Tasks |-> Max(timers[t] - 1, 0)]
    /\ last_trigger' = [last_trigger EXCEPT !.since = Saturate(@ + 1)]
    /\ UNCHANGED <<parser_vars, seq_vars, alarm_sequences, run_vars, tags,
                   line_writer, metrics_pc, failures, prod_vars, current_alarms,
                   alarm_pc, seq_cursor, scenario_toggle, replayed, clearing>>

\* ---- _simulate_production
\* variant: a failed Speed_CPH write resets the accumulator
ProdRate_resets_on_error ==
    /\ simulation_running
    /\ prod_pc = "p_rate"
    /\ timers["production"] = 0
    /\ production_rate' = ProductionRate(Len(current_alarms))
    /\ \/ /\ total_production + production_rate' <= MaxProduction
          /\ total_production' = total_production + Max(0, production_rate')
          /\ prod_pc' = "p_state"
          /\ UNCHANGED failures
       \/ /\ total_production + production_rate' <= MaxProduction
          /\ total_production' = total_production + Max(0, production_rate')
          /\ Raises
          /\ prod_pc' = "p_rate"
       \/ /\ total_production' = 0
          /\ Raises
          /\ prod_pc' = "p_rate"
    /\ UNCHANGED <<parser_vars, seq_vars, alarm_sequences, run_vars, tags,
                   line_writer, metrics_pc, since_last_scenario, timers,
                   alarm_task_vars>>

\* the rate is set from len(current_alarms) and Speed_CPH written, then
\* total_production is advanced and Total_Production written
ProdRate ==
    /\ simulation_running
    /\ prod_pc = "p_rate"
    /\ timers["production"] = 0
    /\ production_rate' = ProductionRate(Len(current_alarms))
    /\ \/ /\ total_production + production_rate' <= MaxProduction
          /\ total_production' = total_production + Max(0, production_rate')
          /\ prod_pc' = "p_state"
          /\ UNCHANGED failures
       \/ /\ total_production + production_rate' <= MaxProduction
          /\ total_production' = total_production + Max(0, production_rate')
          /\ Raises
          /\ prod_pc' = "p_rate"
       \/ /\ UNCHANGED total_production
          /\ Raises
          /\ prod_pc' = "p_rate"
    /\ UNCHANGED <<parser_vars, seq_vars, alarm_sequences, run_vars, tags,
                   line_writer, metrics_pc, since_last_scenario, timers,
                   alarm_task_vars>>

\* variant: the production task drops the active alarms when it sees a fault
ProdState_drops_alarms ==
    /\ prod_pc = "p_state"
    /\ LET label == MachineState(current_alarms, alarms, production_rate) IN
       /\ tags' = WriteValue(tags, "MMA.State", label)
       /\ prod_pc' = IF label \in {"RUNNING", "STOPPED"} THEN "p_line" ELSE "p_rate"
       /\ current_alarms' = IF label = "FAULT" THEN <<>> ELSE current_alarms
    /\ UNCHANGED <<parser_vars, seq_vars, alarm_sequences, run_vars,
                   line_writer, metrics_pc, since_last_scenario, timers, failures,
                   production_rate, total_production, alarm_pc, seq_cursor, frames,
                   scenario_toggle, replayed, clearing, last_trigger>>

\* variant: the FAULT and the WARNING branch write their label to
\* process_nodes["Line_State"] as well
ProdState_labels_line ==
    /\ prod_pc = "p_state"
    /\ LET label == MachineState(current_alarms, alarms, production_rate) IN
       \/ /\ label \in {"RUNNING", "STOPPED"}
          /\ tags' = WriteValue(tags, "MMA.State", label)
          /\ prod_pc' = "p_line"
          /\ UNCHANGED <<failures, line_writer>>
       \/ /\ label \in {"FAULT", "WARNING"}
          /\ tags' = WriteValue(WriteValue(tags, "MMA.State", label),
                                "Process.Line_State", label)
          /\ line_writer' = "production"
          /\ prod_pc' = "p_rate"
          /\ UNCHANGED failures
       \/ Raises /\ prod_pc' = "p_rate" /\ UNCHANGED <<tags, line_writer>>
    /\ UNCHANGED <<parser_vars, seq_vars, alarm_sequences, run_vars,
                   metrics_pc, since_last_scenario, timers,
                   production_rate, total_production, alarm_task_vars>>

\* the machine-state label is chosen and written to mma_nodes["State"]
ProdState ==
    /\ prod_pc = "p_state"
    /\ LET label == MachineState(current_alarms, alarms, production_rate) IN
       \/ /\ tags' = WriteValue(tags, "MMA.State", label)
          /\ prod_pc' = IF label \in {"RUNNING", "STOPPED"} THEN "p_line" ELSE "p_rate"
          /\ UNCHANGED failures
       \/ Raises /\ prod_pc' = "p_rate" /\ UNCHANGED tags
    /\ UNCHANGED <<parser_vars, seq_vars, alarm_sequences, run_vars,
                   line_writer, metrics_pc, since_last_scenario, timers,
                   production_rate, total_production, alarm_task_vars>>

\* the RUNNING and the STOPPED branch also write process_nodes["Line_State"]
ProdLineState ==
    /\ prod_pc = "p_line"
    /\ prod_pc' = "p_rate"
    /\ \/ /\ tags' = WriteValue(tags, "Process.Line_State",
                                IF production_rate > 1000 THEN "RUNNING" ELSE "STOPPED")
          /\ line_writer' = "production"
          /\ UNCHANGED failures
       \/ Raises /\ UNCHANGED <<tags, line_writer>>
    /\ UNCHANGED <<parser_vars, seq_vars, alarm_sequences, run_vars,
                   metrics_pc, since_last_scenario, timers,
                   production_rate, total_production, alarm_task_vars>>

\* ---- _update_process_variables
\* variant: a write that raises ends the loop
MetricsTick_exits_on_error ==
    /\ simulation_running
    /\ metrics_pc = "m_tick"
    /\ timers["metrics"] = 0
    /\ \/ UNCHANGED <<failures, metrics_pc>>
       \/ /\ Raises
          /\ metrics_pc' = "off"
    /\ UNCHANGED <<parser_vars, seq_vars, alarm_sequences, run_vars, tags,
                   line_writer, since_last_scenario, timers, prod_vars, alarm_task_vars>>

\* ---- _update_process_variables
\* The OEE components are fractions: availability in tenths, performance in
\* 1/18000, quality in twentieths, their product in 1/3600000.
AvailabilityOf(n) == Max(0, 10 - n)
PerformanceOf(rate) == IF rate > 0 THEN rate ELSE 0

\* variant: quality has no floor
QualityOf_no_floor(f) == 20 - f

QualityOf(f) == Max(17, 20 - f)
OeeOf(availability, performance, quality) == availability * performance * quality
OeeScale == 10 * BaseProductionRate * 20

\* round(x * 100, 1) of the double nearest to num / den, in tenths of a
\* percent (a denominator that is a multiple of 1000 is reduced first).  A
\* value halfway between two tenths is rounded as the double falls: down,
\* except for the four values listed.
Percent(num, den) ==
    LET mul == IF den % 1000 = 0 THEN 1 ELSE 1000
        div == IF den % 1000 = 0 THEN den \div 1000 ELSE den
        whole == (num * mul) \div div
        rest == (num * mul) % div
    IN  IF 2 * rest > div THEN whole + 1
        ELSE IF 2 * rest < div THEN whole
        ELSE IF whole \in {237, 297, 427, 769} THEN whole + 1
        ELSE whole

\* values of 20.0 + random.uniform(-2, 8) and 6.0 + random.uniform(-0.5, 1.0),
\* in tenths
Temperatures == {180, 280}
Pressures == {55, 70}

\* the six node writes of one tick, in order
MetricsWrites(lst, pool, rate, temp, pressure) ==
    LET availability == AvailabilityOf(Len(lst))
        performance == PerformanceOf(rate)
        quality == QualityOf(FaultCount(lst, pool))
        oee == OeeOf(availability, performance, quality)
    IN  << <<"Process.Availability", Percent(availability, 10)>>,
           <<"Process.Performance", Percent(performance, BaseProductionRate)>>,
           <<"Process.Quality", Percent(quality, 20)>>,
           <<"Process.OEE", Percent(oee, OeeScale)>>,
           <<"MMA.Temperature", temp>>,
           <<"MMA.Pressure", pressure>> >>

\* the six node writes of one tick, then the sleep; a write that raises ends
\* the tick with the 10 s back-off
MetricsTick ==
    /\ simulation_running
    /\ metrics_pc = "m_tick"
    /\ timers["metrics"] = 0
    /\ metrics_pc' = "m_tick"
    /\ LET written == {MetricsWrites(current_alarms, alarms, production_rate,
                                     temp, pressure) :
                           temp \in Temperatures, pressure \in Pressures}
           after(done) == {ApplyWrites(tags, writes, k) : writes \in written, k \in done}
       IN  \/ /\ UNCHANGED <<failures, timers>>
              /\ tags' \in after({6})
           \/ /\ Raises
              /\ timers' = [timers EXCEPT !["metrics"] = MetricsBackoff]
              /\ tags' \in after(0..5)
    /\ UNCHANGED <<parser_vars, seq_vars, alarm_sequences, run_vars,
                   line_writer, since_last_scenario, prod_vars, alarm_task_vars>>

\* ---- _simulate_real_alarms
\* the awaited scenario of the current loop iteration
NextScenario == IF ~scenario_toggle THEN "A" ELSE "B"

\* variant: the script is started as a task of its own and not awaited
AlarmLoop_not_awaited ==
    /\ simulation_running
    /\ alarm_pc = "a_loop"
    /\ timers["alarms"] = 0
    /\ alarm_pc' = "a_seq"
    /\ IF since_last_scenario > ScenarioInterval
       THEN /\ frames' = [frames EXCEPT ![NextScenario] = NewFrame]
            /\ scenario_toggle' = ~scenario_toggle
            /\ since_last_scenario' = 0
            /\ last_trigger' = [scenario |-> NextScenario, since |-> 0]
       ELSE UNCHANGED <<frames, scenario_toggle, since_last_scenario, last_trigger>>
    /\ UNCHANGED <<parser_vars, seq_vars, alarm_sequences, run_vars, tags,
                   line_writer, metrics_pc, timers, failures,
                   prod_vars, current_alarms, seq_cursor, replayed, clearing>>

\* top of the loop: the scenario is due, or the alarms are streamed
AlarmLoop ==
    /\ simulation_running
    /\ alarm_pc = "a_loop"
    /\ timers["alarms"] = 0
    /\ IF since_last_scenario > ScenarioInterval
       THEN /\ frames' = [frames EXCEPT ![NextScenario] = NewFrame]
            /\ alarm_pc' = "a_scenario"
            /\ last_trigger' = [scenario |-> NextScenario, since |-> 0]
       ELSE /\ alarm_pc' = "a_seq"
            /\ UNCHANGED <<frames, last_trigger>>
    /\ UNCHANGED <<parser_vars, seq_vars, alarm_sequences, run_vars, tags,
                   line_writer, metrics_pc, since_last_scenario, timers, failures,
                   prod_vars, current_alarms, seq_cursor, scenario_toggle,
                   replayed, clearing>>

\* one await of a scenario script
ScenarioStep(s) ==
    /\ frames[s].ip > 0
    /\ frames[s].ip <= Len(Script(s))
    /\ frames[s].timer = 0
    /\ LET ins == Script(s)[frames[s].ip] IN
       IF ins.op = "sleep"
       THEN /\ frames' = [frames EXCEPT ![s].ip = @ + 1,
                                        ![s].timer = ins.d,
                                        ![s].log = IF ins.d >= DwellTime
                                                   THEN Append(@, <<"dwell", TRUE>>)
                                                   ELSE @]
            /\ UNCHANGED <<tags, line_writer, failures, alarm_pc>>
       ELSE \/ /\ tags' = WriteValue(tags, ins.tag, ins.val)
               /\ line_writer' = IF ins.tag = "Process.Line_State"
                                 THEN "scenario" ELSE line_writer
               /\ frames' = [frames EXCEPT ![s].ip = @ + 1,
                                           ![s].log = Append(@, <<ins.tag, ins.val>>)]
               /\ UNCHANGED <<failures, alarm_pc>>
            \/ /\ Raises
               /\ frames' = [frames EXCEPT ![s] = IdleFrame]
               /\ alarm_pc' = "a_loop"
               /\ UNCHANGED <<tags, line_writer>>
    /\ UNCHANGED <<parser_vars, seq_vars, alarm_sequences, run_vars,
                   metrics_pc, since_last_scenario, timers, prod_vars,
                   current_alarms, seq_cursor, scenario_toggle, replayed, clearing,
                   last_trigger>>

\* the awaited script returns: the toggle flips, last_scenario_time = now
ScenarioReturn ==
    /\ alarm_pc = "a_scenario"
    /\ frames[NextScenario].ip > Len(Script(NextScenario))
    /\ scenario_toggle' = ~scenario_toggle
    /\ since_last_scenario' = frames[NextScenario].since
    /\ frames' = [frames EXCEPT ![NextScenario] = IdleFrame]
    /\ alarm_pc' = "a_seq"
    /\ UNCHANGED <<parser_vars, seq_vars, alarm_sequences, run_vars, tags,
                   line_writer, metrics_pc, timers, failures, prod_vars,
                   current_alarms, seq_cursor, replayed, clearing, last_trigger>>

\* the node writes of one call of the alarm task: all of them are done and
\* the task goes on to next_pc, or one raises and the loop backs off
DoWrites(writes, next_pc, next_cursor) ==
    \/ /\ tags' = ApplyWrites(tags, writes, Len(writes))
       /\ alarm_pc' = next_pc
       /\ seq_cursor' = next_cursor
       /\ UNCHANGED failures
    \/ /\ \E k \in 0..(Len(writes) - 1) : tags' = ApplyWrites(tags, writes, k)
       /\ Raises
       /\ alarm_pc' = "a_loop"
       /\ seq_cursor' = <<0, 0>>

\* variant: with sequences in the index a call may still replay none
TriggerAlarmSequence_optional ==
    /\ alarm_pc = "a_seq"
    /\ \/ /\ alarm_pc' = "a_clear"
          /\ UNCHANGED <<seq_cursor, replayed>>
       \/ /\ alarm_sequences # <<>>
          /\ alarm_pc' = "a_seq_act"
          /\ replayed' = <<>>
          /\ \E k \in 1..Len(alarm_sequences) : seq_cursor' = <<k, 1>>
    /\ UNCHANGED <<parser_vars, seq_vars, alarm_sequences, run_vars, tags,
                   line_writer, metrics_pc, since_last_scenario, timers, failures,
                   prod_vars, current_alarms, frames, scenario_toggle, clearing,
                   last_trigger>>

\* _trigger_alarm_sequence: nothing without sequences, else random.choice
TriggerAlarmSequence ==
    /\ alarm_pc = "a_seq"
    /\ IF alarm_sequences = <<>>
       THEN /\ alarm_pc' = "a_clear"
            /\ UNCHANGED <<seq_cursor, replayed>>
       ELSE /\ alarm_pc' = "a_seq_act"
            /\ replayed' = <<>>
            /\ \E k \in 1..Len(alarm_sequences) : seq_cursor' = <<k, 1>>
    /\ UNCHANGED <<parser_vars, seq_vars, alarm_sequences, run_vars, tags,
                   line_writer, metrics_pc, since_last_scenario, timers, failures,
                   prod_vars, current_alarms, frames, scenario_toggle, clearing,
                   last_trigger>>

\* members of the chosen sequence that are replayed: sequence[:5]
ReplayLimit == 5

\* variant: every member of the chosen sequence is replayed
SeqActivateUpTo_whole(cap) ==
    /\ alarm_pc = "a_seq_act"
    /\ Len(current_alarms) < cap
    /\ LET sq == alarm_sequences[seq_cursor[1]]
           i == seq_cursor[2]
       IN  /\ current_alarms' = Append(current_alarms, sq[i])
           /\ replayed' = Append(replayed, sq[i])
           /\ \E deviation \in Deviations :
                 IF i + 1 > Len(sq)
                 THEN DoWrites(ActivationWrites(alarms[sq[i]], deviation),
                               "a_clear", <<0, 0>>)
                 ELSE DoWrites(ActivationWrites(alarms[sq[i]], deviation),
                               "a_seq_act", <<seq_cursor[1], i + 1>>)
    /\ UNCHANGED <<parser_vars, seq_vars, alarm_sequences, run_vars,
                   line_writer, metrics_pc, since_last_scenario, timers,
                   prod_vars, frames, scenario_toggle, clearing, last_trigger>>

\* _activate_alarm of the next member of the chosen sequence, while the
\* list of active alarms is shorter than cap
SeqActivateUpTo(cap) ==
    /\ alarm_pc = "a_seq_act"
    /\ Len(current_alarms) < cap
    /\ LET sq == alarm_sequences[seq_cursor[1]]
           i == seq_cursor[2]
       IN  /\ current_alarms' = Append(current_alarms, sq[i])
           /\ replayed' = Append(replayed, sq[i])
           /\ \E deviation \in Deviations :
                 IF i + 1 > Min(ReplayLimit, Len(sq))
                 THEN DoWrites(ActivationWrites(alarms[sq[i]], deviation),
                               "a_clear", <<0, 0>>)
                 ELSE DoWrites(ActivationWrites(alarms[sq[i]], deviation),
                               "a_seq_act", <<seq_cursor[1], i + 1>>)
    /\ UNCHANGED <<parser_vars, seq_vars, alarm_sequences, run_vars,
                   line_writer, metrics_pc, since_last_scenario, timers,
                   prod_vars, frames, scenario_toggle, clearing, last_trigger>>

SeqActivate == SeqActivateUpTo(MaxActive)

\* variant: the alarm to clear is chosen among all the alarms of the parser
ClearRandomAlarm_any ==
    /\ alarm_pc = "a_clear"
    /\ IF alarms = <<>>
       THEN /\ alarm_pc' = "a_random"
            /\ UNCHANGED <<current_alarms, clearing>>
       ELSE \E ref \in 1..Len(alarms) :
               /\ current_alarms' =
                     IF \E i \in 1..Len(current_alarms) : alarms[current_alarms[i]] = alarms[ref]
                     THEN RemoveFirst(current_alarms, alarms, ref)
                     ELSE current_alarms
               /\ clearing' = ref
               /\ alarm_pc' = "a_clear_nodes"
    /\ UNCHANGED <<parser_vars, seq_vars, alarm_sequences, run_vars, tags,
                   line_writer, metrics_pc, since_last_scenario, timers, failures,
                   prod_vars, seq_cursor, frames, scenario_toggle, replayed,
                   last_trigger>>

\* _clear_random_alarm, called when current_alarms is not empty:
\* random.choice and list.remove
ClearRandomAlarm ==
    /\ alarm_pc = "a_clear"
    /\ IF current_alarms = <<>>
       THEN /\ alarm_pc' = "a_random"
            /\ UNCHANGED <<current_alarms, clearing>>
       ELSE \E i \in 1..Len(current_alarms) :
               /\ current_alarms' = RemoveFirst(current_alarms, alarms, current_alarms[i])
               /\ clearing' = current_alarms[i]
               /\ alarm_pc' = "a_clear_nodes"
    /\ UNCHANGED <<parser_vars, seq_vars, alarm_sequences, run_vars, tags,
                   line_writer, metrics_pc, since_last_scenario, timers, failures,
                   prod_vars, seq_cursor, frames, scenario_toggle, replayed,
                   last_trigger>>

\* _clear_random_alarm: the node writes that reset the chosen alarm
ClearNodeWrites ==
    /\ alarm_pc = "a_clear_nodes"
    /\ DoWrites(ClearWrites(alarms[clearing]), "a_random", seq_cursor)
    /\ clearing' = 0
    /\ UNCHANGED <<parser_vars, seq_vars, alarm_sequences, run_vars,
                   line_writer, metrics_pc, since_last_scenario, timers,
                   prod_vars, current_alarms, frames, scenario_toggle, replayed,
                   last_trigger>>

\* _trigger_random_alarm: random.choice(self.alarm_parser.alarms), while the
\* list of active alarms is shorter than cap
TriggerRandomAlarmUpTo(cap) ==
    /\ alarm_pc = "a_random"
    /\ IF alarms = <<>>
       THEN /\ alarm_pc' = "a_counters"
            /\ UNCHANGED <<current_alarms, tags, failures, seq_cursor>>
       ELSE /\ Len(current_alarms) < cap
            /\ \E ref \in 1..Len(alarms), deviation \in Deviations :
                  /\ current_alarms' = Append(current_alarms, ref)
                  /\ DoWrites(ActivationWrites(alarms[ref], deviation),
                              "a_counters", seq_cursor)
    /\ UNCHANGED <<parser_vars, seq_vars, alarm_sequences, run_vars,
                   line_writer, metrics_pc, since_last_scenario, timers,
                   prod_vars, frames, scenario_toggle, replayed, clearing,
                   last_trigger>>

TriggerRandomAlarm == TriggerRandomAlarmUpTo(MaxActive)

\* _update_alarm_counters, then asyncio.sleep(0.05)
UpdateAlarmCounters ==
    /\ alarm_pc = "a_counters"
    /\ DoWrites(CounterWrites(current_alarms, alarms), "a_loop", seq_cursor)
    /\ UNCHANGED <<parser_vars, seq_vars, alarm_sequences, run_vars,
                   line_writer, metrics_pc, since_last_scenario, timers,
                   prod_vars, current_alarms, frames, scenario_toggle, replayed,
                   clearing, last_trigger>>

\* variant: stop_server() stops the server and leaves simulation_running set
StopServer_keeps_flag ==
    /\ ~server_stopped
    /\ simulation_running
    /\ server_stopped' = TRUE
    /\ UNCHANGED <<parser_vars, seq_vars, alarm_sequences, tags, line_writer,
                   metrics_pc, since_last_scenario, timers, failures, prod_vars,
                   alarm_task_vars, simulation_running>>

\* stop_server() is called while the tasks of run_simulation() exist: the
\* flag the loops test at their head is cleared and the server is stopped
StopServer ==
    /\ ~server_stopped
    /\ simulation_running
    /\ simulation_running' = FALSE
    /\ server_stopped' = TRUE
    /\ UNCHANGED <<parser_vars, seq_vars, alarm_sequences, tags, line_writer,
                   metrics_pc, since_last_scenario, timers, failures, prod_vars,
                   alarm_task_vars>>

\* main() is interrupted: the awaited run_simulation() (or the idle loop that
\* stands for it without alarm data) is cancelled with its three tasks, and
\* the finally clause calls stop_server()
MainInterrupted ==
    /\ ~server_stopped
    /\ simulation_running' = FALSE
    /\ server_stopped' = TRUE
    /\ prod_pc' = "off"
    /\ metrics_pc' = "off"
    /\ alarm_pc' = "off"
    /\ frames' = [s \in Scenarios |-> IdleFrame]
    /\ seq_cursor' = <<0, 0>>
    /\ clearing' = 0
    /\ scenario_toggle' = FALSE
    /\ since_last_scenario' = 0
    /\ timers' = [t \in Tasks |-> 0]
    /\ UNCHANGED <<parser_vars, seq_vars, alarm_sequences, tags, line_writer,
                   failures, production_rate, total_production, current_alarms,
                   replayed, last_trigger>>

Production == ProdRate \/ ProdState \/ ProdLineState
Shutdown == MainInterrupted
Metrics == MetricsTick
Scenario == \E s \in Scenarios : ScenarioStep(s)
AlarmReplay ==
    \/ AlarmLoop \/ ScenarioReturn \/ TriggerAlarmSequence
    \/ SeqActivate \/ ClearRandomAlarm \/ ClearNodeWrites \/ TriggerRandomAlarm
    \/ UpdateAlarmCounters

Next == Tick \/ Production \/ Metrics \/ Scenario \/ AlarmReplay \/ Shutdown

Spec == Init /\ [][Next]_vars

(***************************************************************************)
(* Specification of the engine as an object: besides what main() does,     *)
(* stop_server() is called by another task while run_simulation() runs.    *)
(***************************************************************************)
StopNext == Next \/ StopServer

SpecStop == Init /\ [][StopNext]_vars

\* The event loop runs every task that is ready (its ready queue is first in,
\* first out) and time passes; no write is bound to raise and nobody is bound
\* to stop the server.
Fairness ==
    /\ WF_vars(Tick)
    /\ WF_vars(Production)
    /\ WF_vars(Metrics)
    /\ WF_vars(Scenario)
    /\ WF_vars(AlarmReplay)

SpecLive == Init /\ [][Next]_vars /\ Fairness

(***************************************************************************)
(* Specification of the shutdown: stop_server() is called by another task  *)
(* while run_simulation() runs, and each loop that finds                   *)
(* simulation_running false at the head of its while leaves it: its        *)
(* coroutine is done, and run_simulation() returns when the three are.     *)
(* The event loop runs every task that is ready and time passes.           *)
(***************************************************************************)
\* while self.simulation_running: of _simulate_production is false
ProdExit ==
    /\ ~simulation_running
    /\ prod_pc = "p_rate"
    /\ timers["production"] = 0
    /\ prod_pc' = "done"
    /\ UNCHANGED <<parser_vars, seq_vars, alarm_sequences, run_vars, tags,
                   line_writer, metrics_pc, since_last_scenario, timers, failures,
                   production_rate, total_production, alarm_task_vars>>

\* while self.simulation_running: of _update_process_variables is false
MetricsExit ==
    /\ ~simulation_running
    /\ metrics_pc = "m_tick"
    /\ timers["metrics"] = 0
    /\ metrics_pc' = "done"
    /\ UNCHANGED <<parser_vars, seq_vars, alarm_sequences, run_vars, tags,
                   line_writer, since_last_scenario, timers, failures, prod_vars,
                   alarm_task_vars>>

\* while self.simulation_running: of _simulate_real_alarms is false
AlarmExit ==
    /\ ~simulation_running
    /\ alarm_pc = "a_loop"
    /\ timers["alarms"] = 0
    /\ alarm_pc' = "done"
    /\ UNCHANGED <<parser_vars, seq_vars, alarm_sequences, run_vars, tags,
                   line_writer, metrics_pc, since_last_scenario, timers, failures,
                   prod_vars, current_alarms, seq_cursor, frames, scenario_toggle,
                   replayed, clearing, last_trigger>>

LoopExit == ProdExit \/ MetricsExit \/ AlarmExit

ShutdownNext == StopNext \/ LoopExit

SpecShutdown ==
    /\ Init
    /\ [][ShutdownNext]_vars
    /\ Fairness
    /\ WF_vars(ProdExit) /\ WF_vars(MetricsExit) /\ WF_vars(AlarmExit)

(***************************************************************************)
(* Specification of the production task alone: the simulation runs with    *)
(* any number of active alarms up to MaxBacklog and _simulate_production   *)
(* ticks; the other tasks stand still.                                     *)
(***************************************************************************)
MaxBacklog == 20

RateInit ==
    \E df \in {f \in EngineFiles : f # <<>>}, wall_clock \in WallClock,
       n \in 0..MaxBacklog :
        LET st == LoadRows(alarm_rows(df), 1, wall_clock, [alarms |-> <<>>, skips |-> 0])
            sq == get_cascading_sequences(st.alarms)
        IN  /\ csv = Some(df)
            /\ alarms = st.alarms
            /\ skips = st.skips
            /\ load_result = Some(TRUE)
            /\ loads = 1
            /\ alarm_patterns = build_alarm_patterns(NoPatterns, st.alarms, 1)
            /\ sequences = sq
            /\ seq_called = TRUE
            /\ common_patterns = None
            /\ duration_stats = None
            /\ alarm_sequences = sq
            /\ current_alarms = [i \in 1..n |-> 1]
            /\ production_rate = 0
            /\ total_production = 0
            /\ simulation_running = TRUE
            /\ server_stopped = FALSE
            /\ tags = InitialTags
            /\ line_writer = "setup"
            /\ prod_pc = "p_rate"
            /\ metrics_pc = "m_tick"
            /\ alarm_pc = "a_loop"
            /\ seq_cursor = <<0, 0>>
            /\ replayed = <<>>
            /\ clearing = 0
            /\ last_trigger = NoTrigger
            /\ frames = [s \in Scenarios |-> IdleFrame]
            /\ scenario_toggle = FALSE
            /\ since_last_scenario = 0
            /\ timers = [t \in Tasks |-> 0]
            /\ failures = 0
            /\ tag_log = <<>>

RateNext == ProdRate \/ ProdState \/ ProdLineState

SpecRate == RateInit /\ [][RateNext]_vars

(***************************************************************************)
(* Specification of the metrics task: the simulation runs on the file of   *)
(* EngineFiles with a Fault record; any number of faults and of other      *)
(* alarms, MaxMetered together at most, are active, and the production     *)
(* rate is the one a production tick has set at any length of the list.    *)
(* _update_process_variables ticks and the clock runs; the other tasks     *)
(* stand still.                                                            *)
(***************************************************************************)
MaxMetered == 11      \* longest current_alarms list the metrics task meets

MetricTags ==
    [t \in {"Process.Availability", "Process.Performance", "Process.Quality",
            "Process.OEE"} |-> 0]

MetricsInit ==
    \E df \in {f \in EngineFiles : Len(f) = 3}, wall_clock \in WallClock,
       faults \in 0..MaxMetered, others \in 0..MaxMetered,
       rate \in {0} \cup {ProductionRate(n) : n \in 0..MaxMetered} :
        LET st == LoadRows(alarm_rows(df), 1, wall_clock, [alarms |-> <<>>, skips |-> 0])
            sq == get_cascading_sequences(st.alarms)
        IN  /\ faults + others <= MaxMetered
            /\ csv = Some(df)
            /\ alarms = st.alarms
            /\ skips = st.skips
            /\ load_result = Some(TRUE)
            /\ loads = 1
            /\ alarm_patterns = build_alarm_patterns(NoPatterns, st.alarms, 1)
            /\ sequences = sq
            /\ seq_called = TRUE
            /\ common_patterns = None
            /\ duration_stats = None
            /\ alarm_sequences = sq
            /\ current_alarms = [i \in 1..(faults + others) |-> IF i <= faults THEN 1 ELSE 2]
            /\ production_rate = rate
            /\ total_production = rate
            /\ simulation_running = TRUE
            /\ server_stopped = FALSE
            /\ tags = InitialTags @@ MetricTags
            /\ line_writer = "setup"
            /\ prod_pc = "p_rate"
            /\ metrics_pc = "m_tick"
            /\ alarm_pc = "a_loop"
            /\ seq_cursor = <<0, 0>>
            /\ replayed = <<>>
            /\ clearing = 0
            /\ last_trigger = NoTrigger
            /\ frames = [s \in Scenarios |-> IdleFrame]
            /\ scenario_toggle = FALSE
            /\ since_last_scenario = 0
            /\ timers = [t \in Tasks |-> 0]
            /\ failures = 0
            /\ tag_log = <<>>

MetricsNext == MetricsTick \/ Tick

SpecMetrics == MetricsInit /\ [][MetricsNext]_vars

(***************************************************************************)
(* Specification of the alarm replay task alone: the parser has loaded     *)
(* ReplayFile, whose rows form a cascading sequence of six records and one *)
(* of three records; _simulate_real_alarms ticks until current_alarms holds  *)
(* MaxReplayed alarms; the other tasks and the clock stand still.          *)
(***************************************************************************)
MaxReplayed == 7

ReplayFile ==
    << Row("Warning", Cell("ms", 0), NaN, "MMA", Cell("num", 1), <<"Guard door">>, "q1"),
       Row("Fault", Cell("ms", 1000), NaN, "SDC", Cell("num", 2), <<"Power supply">>, "q2"),
       Row("FirstFault", Cell("ms", 2000), NaN, "MMA", Cell("num", 3), <<"Fault routine">>, "q3"),
       Row("Note", Cell("ms", 3000), NaN, "BAS", Cell("num", 4), <<"BCM server">>, "q4"),
       Row("Warning", Cell("ms", 4000), NaN, "MMA", Cell("num", 5), <<"Manual">>, "q5"),
       Row("Debug", Cell("ms", 5000), NaN, "MMA", Cell("num", 6), <<"Level", "LT100">>, "q6"),
       Row("Fault", Cell("ms", 400000), NaN, "SDC", Cell("num", 7), <<"brake">>, "q7"),
       Row("Warning", Cell("ms", 401000), NaN, "MMA", Cell("num", 8), <<"Guard door">>, "q8"),
       Row("Note", Cell("ms", 402000), NaN, "SBC", Cell("num", 9), <<"Stretching drive">>, "q9") >>

ReplayInit ==
    \E wall_clock \in WallClock :
        LET st == LoadRows(alarm_rows(ReplayFile), 1, wall_clock,
                           [alarms |-> <<>>, skips |-> 0])
            sq == get_cascading_sequences(st.alarms)
        IN  /\ csv = Some(ReplayFile)
            /\ alarms = st.alarms
            /\ skips = st.skips
            /\ load_result = Some(TRUE)
            /\ loads = 1
            /\ alarm_patterns = build_alarm_patterns(NoPatterns, st.alarms, 1)
            /\ sequences = sq
            /\ seq_called = TRUE
            /\ common_patterns = None
            /\ duration_stats = None
            /\ alarm_sequences = sq
            /\ current_alarms = <<>>
            /\ production_rate = 0
            /\ total_production = 0
            /\ simulation_running = TRUE
            /\ server_stopped = FALSE
            /\ tags = InitialTags
            /\ line_writer = "setup"
            /\ prod_pc = "p_rate"
            /\ metrics_pc = "m_tick"
            /\ alarm_pc = "a_loop"
            /\ seq_cursor = <<0, 0>>
            /\ replayed = <<>>
            /\ clearing = 0
            /\ last_trigger = NoTrigger
            /\ frames = [s \in Scenarios |-> IdleFrame]
            /\ scenario_toggle = FALSE
            /\ since_last_scenario = 0
            /\ timers = [t \in Tasks |-> 0]
            /\ failures = 0
            /\ tag_log = <<>>

ReplayNext ==
    \/ AlarmLoop \/ TriggerAlarmSequence \/ SeqActivateUpTo(MaxReplayed)
    \/ ClearRandomAlarm \/ ClearNodeWrites \/ TriggerRandomAlarmUpTo(MaxReplayed)
    \/ UpdateAlarmCounters

SpecReplay == ReplayInit /\ [][ReplayNext]_vars

(***************************************************************************)
(* Specification of the growth of current_alarms: the parser has loaded    *)
(* one of the files of GrowthFiles (no row, one record, a cascading        *)
(* sequence of three records, one of six); _simulate_real_alarms ticks     *)
(* until current_alarms holds MaxGrowth alarms; the other tasks and the    *)
(* clock stand still.  The event loop runs the task whenever it is ready;  *)
(* no write is bound to raise.                                             *)
(***************************************************************************)
MaxGrowth == 10

GrowthFiles == EngineFiles \cup {SubSeq(ReplayFile, 1, 6)}

GrowthInit ==
    \E df \in GrowthFiles, wall_clock \in WallClock :
        LET st == LoadRows(alarm_rows(df), 1, wall_clock, [alarms |-> <<>>, skips |-> 0])
            sq == get_cascading_sequences(st.alarms)
        IN  /\ csv = Some(df)
            /\ alarms = st.alarms
            /\ skips = st.skips
            /\ load_result = Some(TRUE)
            /\ loads = 1
            /\ alarm_patterns = build_alarm_patterns(NoPatterns, st.alarms, 1)
            /\ sequences = sq
            /\ seq_called = TRUE
            /\ common_patterns = None
            /\ duration_stats = None
            /\ alarm_sequences = sq
            /\ current_alarms = <<>>
            /\ production_rate = 0
            /\ total_production = 0
            /\ simulation_running = TRUE
            /\ server_stopped = FALSE
            /\ tags = InitialTags
            /\ line_writer = "setup"
            /\ prod_pc = "p_rate"
            /\ metrics_pc = "m_tick"
            /\ alarm_pc = "a_loop"
            /\ seq_cursor = <<0, 0>>
            /\ replayed = <<>>
            /\ clearing = 0
            /\ last_trigger = NoTrigger
            /\ frames = [s \in Scenarios |-> IdleFrame]
            /\ scenario_toggle = FALSE
            /\ since_last_scenario = 0
            /\ timers = [t \in Tasks |-> 0]
            /\ failures = 0
            /\ tag_log = <<>>

GrowthNext ==
    \/ AlarmLoop \/ TriggerAlarmSequence \/ SeqActivateUpTo(MaxGrowth)
    \/ ClearRandomAlarm \/ ClearNodeWrites \/ TriggerRandomAlarmUpTo(MaxGrowth)
    \/ UpdateAlarmCounters

SpecGrowth == GrowthInit /\ [][GrowthNext]_vars /\ WF_vars(GrowthNext)

(***************************************************************************)
(* Specification of the symptom nodes: the nodes _activate_alarm and       *)
(* _clear_random_alarm write keep their value, starting from the value     *)
(* they are created with.  The parser has loaded SymptomFile, a cascading  *)
(* sequence of three records (two for the guard door, one for the          *)
(* stretching drive of station 12) and three records apart from it (power  *)
(* supply, service brake, stretching drive of station 13);                 *)
(* _simulate_real_alarms ticks until current_alarms holds MaxSymptoms      *)
(* alarms; the other tasks and the clock stand still.                      *)
(***************************************************************************)
MaxSymptoms == 8

SymptomNodes ==
    [t \in {"MMA.Fault_Routine_Active", "MMA.Manual_Override"} |-> FALSE] @@
    [t \in {"MMA.Air_Dehumidifier", "MMA.Guard_Door_1", "MMA.Container_Transfer",
            "MMA.Cap_Feed_Unit"} |-> TRUE] @@
    [t \in {"MMA.Level_LT100"} |-> 50] @@
    [t \in {"BAS.BCM_Server_Status"} |-> "ONLINE"] @@
    [t \in {"BAS.Communication_Health", "SDC.Service_Brake_Torque"} |-> 100] @@
    [t \in {"SDC.Power_Supply_Status", "SDC.Servo_Drive_Status"} |-> "OK"] @@
    [t \in {"SBC.Stretching_Drive_12", "SBC.Stretching_Drive_13",
            "SBC.Stretching_Drive_14", "SBC.Position_Deviation"} |-> 0]

SymptomFile ==
    << Row("Warning", Cell("ms", 0), NaN, "MMA", Cell("num", 1), <<"Guard door">>, "s1"),
       Row("Warning", Cell("ms", 1000), NaN, "MMA", Cell("num", 2), <<"Guard door">>, "s2"),
       Row("Note", Cell("ms", 2000), NaN, "SBC", Cell("num", 3), <<"Stretching drive", "station: 12">>, "s3"),
       Row("Fault", Cell("ms", 400000), NaN, "SDC", Cell("num", 4), <<"Power supply">>, "s4"),
       Row("Fault", Cell("ms", 800000), NaN, "SDC", Cell("num", 5), <<"brake">>, "s5"),
       Row("Note", Cell("ms", 1200000), NaN, "SBC", Cell("num", 6), <<"Stretching drive", "station: 13">>, "s6") >>

SymptomInit ==
    \E wall_clock \in WallClock :
        LET st == LoadRows(alarm_rows(SymptomFile), 1, wall_clock,
                           [alarms |-> <<>>, skips |-> 0])
            sq == get_cascading_sequences(st.alarms)
        IN  /\ csv = Some(SymptomFile)
            /\ alarms = st.alarms
            /\ skips = st.skips
            /\ load_result = Some(TRUE)
            /\ loads = 1
            /\ alarm_patterns = build_alarm_patterns(NoPatterns, st.alarms, 1)
            /\ sequences = sq
            /\ seq_called = TRUE
            /\ common_patterns = None
            /\ duration_stats = None
            /\ alarm_sequences = sq
            /\ current_alarms = <<>>
            /\ production_rate = 0
            /\ total_production = 0
            /\ simulation_running = TRUE
            /\ server_stopped = FALSE
            /\ tags = InitialTags @@ SymptomNodes
            /\ line_writer = "setup"
            /\ prod_pc = "p_rate"
            /\ metrics_pc = "m_tick"
            /\ alarm_pc = "a_loop"
            /\ seq_cursor = <<0, 0>>
            /\ replayed = <<>>
            /\ clearing = 0
            /\ last_trigger = NoTrigger
            /\ frames = [s \in Scenarios |-> IdleFrame]
            /\ scenario_toggle = FALSE
            /\ since_last_scenario = 0
            /\ timers = [t \in Tasks |-> 0]
            /\ failures = 0
            /\ tag_log = <<>>

SymptomNext ==
    \/ AlarmLoop \/ TriggerAlarmSequence \/ SeqActivateUpTo(MaxSymptoms)
    \/ ClearRandomAlarm \/ ClearNodeWrites \/ TriggerRandomAlarmUpTo(MaxSymptoms)
    \/ UpdateAlarmCounters

SpecSymptoms == SymptomInit /\ [][SymptomNext]_vars

(***************************************************************************)
(* Specification of the writers of Line_State: the simulation runs with    *)
(* any number of active alarms up to MaxBacklog, with scenario A or        *)
(* scenario B the next one due; _simulate_production ticks, the clock      *)
(* runs, and _simulate_real_alarms calls the scenario that falls due; its  *)
(* streaming calls stand still, so that the list of active alarms stays.   *)
(***************************************************************************)
LineInit ==
    \E toggle \in BOOLEAN, df \in {f \in EngineFiles : f # <<>>}, wall_clock \in WallClock,
       n \in 0..MaxBacklog :
        LET st == LoadRows(alarm_rows(df), 1, wall_clock, [alarms |-> <<>>, skips |-> 0])
            sq == get_cascading_sequences(st.alarms)
        IN  /\ csv = Some(df)
            /\ alarms = st.alarms
            /\ skips = st.skips
            /\ load_result = Some(TRUE)
            /\ loads = 1
            /\ alarm_patterns = build_alarm_patterns(NoPatterns, st.alarms, 1)
            /\ sequences = sq
            /\ seq_called = TRUE
            /\ common_patterns = None
            /\ duration_stats = None
            /\ alarm_sequences = sq
            /\ current_alarms = [i \in 1..n |-> 1]
            /\ production_rate = 0
            /\ total_production = 0
            /\ simulation_running = TRUE
            /\ server_stopped = FALSE
            /\ tags = InitialTags
            /\ line_writer = "setup"
            /\ prod_pc = "p_rate"
            /\ metrics_pc = "m_tick"
            /\ alarm_pc = "a_loop"
            /\ seq_cursor = <<0, 0>>
            /\ replayed = <<>>
            /\ clearing = 0
            /\ last_trigger = NoTrigger
            /\ frames = [s \in Scenarios |-> IdleFrame]
            /\ scenario_toggle = toggle
            /\ since_last_scenario = 0
            /\ timers = [t \in Tasks |-> 0]
            /\ failures = 0
            /\ tag_log = <<>>

LineNext == Tick \/ Production \/ AlarmLoop \/ Scenario \/ ScenarioReturn

SpecLine == LineInit /\ [][LineNext]_vars

(***************************************************************************)
(* Specification of the three tasks without the clock: run_simulation()    *)
(* runs on one of the files of EngineFiles and no time passes, so that no  *)
(* scenario falls due; current_alarms has room for one alarm more than in  *)
(* the specification of the engine, so that a replay of three returns.     *)
(***************************************************************************)
TasksInit == RateInit /\ current_alarms = <<>>

TasksNext ==
    \/ Production \/ Metrics
    \/ AlarmLoop \/ TriggerAlarmSequence \/ SeqActivateUpTo(MaxActive + 1)
    \/ ClearRandomAlarm \/ ClearNodeWrites \/ TriggerRandomAlarmUpTo(MaxActive + 1)
    \/ UpdateAlarmCounters

SpecTasks == TasksInit /\ [][TasksNext]_vars

(***************************************************************************)
(* Specification of the message-to-tag mapping: the parser holds one       *)
(* record, of any module of MappingModules with any message of             *)
(* MappingMessages; _activate_alarm() is called on it once and then        *)
(* _clear_random_alarm() is called.  No node write raises.                 *)
(***************************************************************************)
MappingModules == {"MMA", "BAS", "SDC", "SBC", "BCM"}

MappingMessages ==
    { <<"Fault routine">>, <<"Guard door", "Fault routine">>, <<"Guard door">>,
      <<"guard door", "Manual">>, <<"MANUAL">>, <<"manual">>,
      <<"dehumidifier">>, <<"Level", "LT100">>, <<"level", "lt100">>, <<"Level">>,
      <<"container transfer">>, <<"cap feed", "container transfer">>,
      <<"BCM server">>, <<"bcm server">>,
      <<"Power supply">>, <<"power supply", "brake">>, <<"Servo drive">>, <<"brake">>,
      <<"Stretching drive">>, <<"Stretching drive", "station: 12">>,
      <<"stretching drive", "Station: 12">>, <<"Stretching drive", "station: 13">>,
      <<"station: 14", "stretching drive">>, <<"station: 12">>,
      <<"Bus error">> }

MappingRecord(module, message) ==
    KronesAlarm(module, 1, "Warning", message, "ref", 0, None)

\* the entries a call adds to the log: one per node write, in order
LogEntries(call, writes) == [k \in 1..Len(writes) |-> <<call, writes[k][1], writes[k][2]>>]

MappingInit ==
    /\ \E module \in MappingModules, message \in MappingMessages :
          alarms = <<MappingRecord(module, message)>>
    /\ csv = None /\ skips = 0 /\ load_result = Some(TRUE) /\ loads = 1
    /\ alarm_patterns = build_alarm_patterns(NoPatterns, alarms, 1)
    /\ EngineNotStarted
    /\ sequences = <<>>
    /\ seq_called = FALSE
    /\ common_patterns = None
    /\ duration_stats = None

\* _activate_alarm(alarm) on the record of the parser
ActivateAlarm ==
    /\ current_alarms = <<>>
    /\ tag_log = <<>>
    /\ current_alarms' = Append(current_alarms, 1)
    /\ \E deviation \in Deviations :
          tag_log' = tag_log \o LogEntries("activate", ActivationWrites(alarms[1], deviation))
    /\ UNCHANGED <<parser_vars, sequences, seq_called, common_patterns, duration_stats,
                   alarm_sequences, run_vars, tags, line_writer, metrics_pc,
                   since_last_scenario, timers, failures, prod_vars, alarm_pc,
                   seq_cursor, frames, scenario_toggle, replayed, clearing,
                   last_trigger>>

\* _clear_random_alarm() with the record active
ClearAlarm ==
    /\ current_alarms # <<>>
    /\ \E i \in 1..Len(current_alarms) :
          /\ current_alarms' = RemoveFirst(current_alarms, alarms, current_alarms[i])
          /\ tag_log' = tag_log \o LogEntries("clear", ClearWrites(alarms[current_alarms[i]]))
    /\ UNCHANGED <<parser_vars, sequences, seq_called, common_patterns, duration_stats,
                   alarm_sequences, run_vars, tags, line_writer, metrics_pc,
                   since_last_scenario, timers, failures, prod_vars, alarm_pc,
                   seq_cursor, frames, scenario_toggle, replayed, clearing,
                   last_trigger>>

MappingNext == ActivateAlarm \/ ClearAlarm

SpecMapping == MappingInit /\ [][MappingNext]_vars

(***************************************************************************)
(* Properties of get_cascading_sequences                                   *)
(***************************************************************************)
\* the order "sorted ascending by activation time, stable for equal times",
\* stated on record occurrences (references) i, j of parser.alarms
Before(al, i, j) ==
    \/ al[i].comes_timestamp < al[j].comes_timestamp
    \/ al[i].comes_timestamp = al[j].comes_timestamp /\ i < j

\* the globally sorted record list, defined by rank
RankOf(al, i) == 1 + Cardinality({j \in 1..Len(al) : Before(al, j, i)})
SortedByRank(al) == [k \in 1..Len(al) |-> CHOOSE i \in 1..Len(al) : RankOf(al, i) = k]

RECURSIVE Concat(_)
Concat(ss) == IF ss = <<>> THEN <<>> ELSE Head(ss) \o Concat(Tail(ss))

Members(s) == {s[k] : k \in 1..Len(s)}

\* adjacent pairs (a, b) of record occurrences in activation-time order
AdjacentPairs(al) ==
    UNION {{<<srt[k], srt[k + 1]>> : k \in 1..(Len(al) - 1)} : srt \in {SortedByRank(al)}}

GapMs(al, pair) == al[pair[2]].comes_timestamp - al[pair[1]].comes_timestamp

\* C4: the returned sequences do not overlap, and their concatenation is a
\* subsequence of the records sorted ascending by activation time (stable),
\* in which no record occurrence appears twice.
C4_NonOverlapping ==
    seq_called =>
        LET flat == Concat(sequences) IN
        /\ \A p \in 1..Len(flat) : flat[p] \in 1..Len(alarms)
        /\ \A p, q \in 1..Len(flat) : p < q => Before(alarms, flat[p], flat[q])

C4_Witness ==
    /\ seq_called
    /\ Len(sequences) >= 2
    /\ \E i, j \in 1..Len(alarms) :
          i # j /\ alarms[i].comes_timestamp = alarms[j].comes_timestamp

\* C5: the gap boundary is inclusive.  Two records adjacent in activation-time
\* order that are exactly 300 s apart are in the same sequence (a returned
\* sequence holds both or neither); two adjacent records more than 300 s apart
\* are never in the same returned sequence.
C5_GapInclusive ==
    seq_called =>
        \A pair \in AdjacentPairs(alarms) :
            /\ GapMs(alarms, pair) = 300 * 1000 =>
                  \A k \in 1..Len(sequences) :
                      pair[1] \in Members(sequences[k]) <=> pair[2] \in Members(sequences[k])
            /\ GapMs(alarms, pair) > 300 * 1000 =>
                  \A k \in 1..Len(sequences) :
                      ~(pair[1] \in Members(sequences[k]) /\ pair[2] \in Members(sequences[k]))

C5_Witness ==
    /\ seq_called
    /\ \E pair \in AdjacentPairs(alarms) :
          /\ GapMs(alarms, pair) = 300 * 1000
          /\ \E k \in 1..Len(sequences) : {pair[1], pair[2]} \subseteq Members(sequences[k])
    /\ \E pair \in AdjacentPairs(alarms) :
          /\ GapMs(alarms, pair) = 300 * 1000 + 1
          /\ \E k \in 1..Len(sequences) : pair[1] \in Members(sequences[k])

\* C6: every returned sequence has at least 3 members, for every input list
\* (the empty list, lists shorter than 3, the final flushed sequence).
C6_MinLength ==
    seq_called => \A k \in 1..Len(sequences) : Len(sequences[k]) >= 3

\* a sequence is returned by the final flush while a shorter run was dropped
C6_Witness ==
    /\ seq_called
    /\ Len(sequences) = 1
    /\ Len(alarms) > 0
    /\ alarms[Len(alarms)].comes_timestamp = 600001
    /\ Len(alarms) \in Members(sequences[1])
    /\ \E i \in 1..Len(alarms) : i \notin Members(sequences[1])

\* the maximal runs of the sorted list srt: intervals lo..hi whose inner gaps
\* are all <= 300 s and that cannot be extended at either end
IsMaximalRun(al, srt, lo, hi) ==
    /\ lo <= hi
    /\ \A k \in lo..(hi - 1) :
          al[srt[k + 1]].comes_timestamp - al[srt[k]].comes_timestamp <= 300 * 1000
    /\ lo > 1 =>
          al[srt[lo]].comes_timestamp - al[srt[lo - 1]].comes_timestamp > 300 * 1000
    /\ hi < Len(al) =>
          al[srt[hi + 1]].comes_timestamp - al[srt[hi]].comes_timestamp > 300 * 1000

MaximalRunsOf(al, srt) ==
    {SubSeq(srt, pr[1], pr[2]) :
        pr \in {p \in (1..Len(al)) \X (1..Len(al)) :
                   p[2] - p[1] + 1 >= 3 /\ IsMaximalRun(al, srt, p[1], p[2])}}

MaximalRuns(al) == UNION {{MaximalRunsOf(al, srt)} : srt \in {SortedByRank(al)}}

\* C7: the returned sequences are exactly the maximal runs of 3 or more
\* records whose consecutive gaps are all <= 300 s; none is dropped and
\* none is returned twice.
C7_MaximalRuns ==
    seq_called =>
        \A runs \in MaximalRuns(alarms) :
            /\ {sequences[k] : k \in 1..Len(sequences)} = runs
            /\ Len(sequences) = Cardinality(runs)

\* one run closed inside the scan, a short run dropped, one run flushed last
C7_Witness ==
    /\ seq_called
    /\ Len(sequences) = 2
    /\ Len(alarms) = MaxAlarms
    /\ alarms[1].comes_timestamp = 600001

(***************************************************************************)
(* Properties of load_alarm_data                                           *)
(***************************************************************************)
\* rows that pass the alarm-history filter
Qualifying(df) ==
    {k \in 1..Len(df) :
        /\ df[k].AlarmType \in {"Warning", "Fault", "FirstFault", "Note", "Debug"}
        /\ df[k].Modul # "nan" /\ df[k].MsgNr # NaN /\ df[k].Event # <<>>}

HasActivation(df) == {k \in Qualifying(df) : df[k].Comes # NaN}

\* rows whose field extraction raises: a code that is not a number
Malformed(df) == {k \in HasActivation(df) : df[k].MsgNr.kind = "text"}

\* C10: a malformed row never aborts the batch.  A load of a file with k
\* malformed rows returns success, appends (qualifying rows with an
\* activation timestamp) - k records, and logs one skip per malformed row.
C10_MalformedRowsSkipped ==
    [][(loads' = loads + 1 /\ csv # None) =>
          /\ load_result' = Some(TRUE)
          /\ Len(alarms') - Len(alarms) =
                Cardinality(HasActivation(csv[1])) - Cardinality(Malformed(csv[1]))
          /\ skips' - skips = Cardinality(Malformed(csv[1]))]_vars

\* a malformed row in the middle of a batch, good rows on both sides
C10_Witness ==
    /\ loads = 1
    /\ csv # None
    /\ Len(csv[1]) = 3
    /\ Malformed(csv[1]) = {2}
    /\ Len(alarms) = 2
    /\ skips = 1
    /\ load_result = Some(TRUE)

\* rows of df that yield a record, and the k-th of them in file order
Yielding(df) == HasActivation(df) \ Malformed(df)
NthYielding(df, n) ==
    CHOOSE k \in Yielding(df) : Cardinality({i \in Yielding(df) : i <= k}) = n

\* C11: the records of one load stand in parser.alarms in the order of their
\* input rows, one record per row that yields one: equal rows are not merged.
C11_OrderKept ==
    [][(loads' = loads + 1 /\ csv # None) =>
          /\ Len(alarms') = Len(alarms) + Cardinality(Yielding(csv[1]))
          /\ SubSeq(alarms', 1, Len(alarms)) = alarms
          /\ \A n \in 1..Cardinality(Yielding(csv[1])) :
                LET row == csv[1][NthYielding(csv[1], n)]
                    rec == alarms'[Len(alarms) + n]
                IN  /\ rec.sw_ref = row.SWRef
                    /\ rec.module = row.Modul
                    /\ rec.msg_nr = row.MsgNr.v
                    /\ rec.alarm_type = row.AlarmType
                    /\ rec.message = row.Event]_vars

\* a file with the same row twice around another row has given three
\* records, the equal ones first and last
C11_Witness ==
    /\ loads = 1
    /\ csv # None
    /\ Len(csv[1]) = 3
    /\ csv[1][1] = csv[1][3]
    /\ csv[1][1] # csv[1][2]
    /\ Len(alarms) = 3
    /\ alarms[1] = alarms[3]
    /\ alarms[1] # alarms[2]

\* C12: a record with both timestamps has duration_ms = cleared time minus
\* activation time in milliseconds, negative when the clear is the earlier
\* one; a record with no cleared time has no duration.
C12_DurationExact ==
    \A j \in 1..Len(alarms) :
        IF alarms[j].goes_timestamp # None
        THEN alarms[j].duration_ms =
                Some(alarms[j].goes_timestamp[1] - alarms[j].comes_timestamp)
        ELSE alarms[j].duration_ms = None

\* the records of al whose pattern key is key, in the order of al
RECURSIVE RecordsOfKey(_, _)
RecordsOfKey(al, key) ==
    IF al = <<>> THEN <<>>
    ELSE LET rest == RecordsOfKey(SubSeq(al, 1, Len(al) - 1), key)
         IN  IF PatternKey(al[Len(al)]) = key THEN Append(rest, al[Len(al)]) ELSE rest

\* the sum of the bucket sizes of the keys in S
RECURSIVE BucketTotal(_, _)
BucketTotal(patterns, S) ==
    IF S = {} THEN 0
    ELSE LET key == CHOOSE q \in S : TRUE
         IN  Len(patterns[key]) + BucketTotal(patterns, S \ {key})

\* C23: after any number of successful loads the buckets of alarm_patterns
\* partition parser.alarms: there is one bucket per key that occurs, the
\* bucket of a key holds the records of that key once each, in the order of
\* parser.alarms, and the bucket sizes add up to the number of records.
C23_BucketsPartition ==
    load_result = Some(TRUE) =>
        /\ DOMAIN alarm_patterns = {PatternKey(alarms[j]) : j \in 1..Len(alarms)}
        /\ \A key \in DOMAIN alarm_patterns :
              alarm_patterns[key] = RecordsOfKey(alarms, key)
        /\ BucketTotal(alarm_patterns, DOMAIN alarm_patterns) = Len(alarms)

(***************************************************************************)
(* Properties of get_typical_durations and get_common_alarms               *)
(***************************************************************************)
GroupKeys == {PatternKey(alarms[j]) : j \in 1..Len(alarms)}
GroupOf(key) == {j \in 1..Len(alarms) : PatternKey(alarms[j]) = key}
SamplesOf(key) == {j \in GroupOf(key) : alarms[j].duration_ms # None}
DurationOf(j) == alarms[j].duration_ms[1]

RECURSIVE SumOver(_)
SumOver(S) ==
    IF S = {} THEN 0
    ELSE LET j == CHOOSE i \in S : TRUE IN DurationOf(j) + SumOver(S \ {j})

\* C13: get_typical_durations has an entry exactly for the groups with at
\* least one record that has a duration; the entry's count is the number of
\* those records, min and max are the smallest and largest of their
\* durations, and mean is their sum divided by count.  Records without a
\* cleared time give no sample.
C13_DurationStatistics ==
    duration_stats # None =>
        LET stats == duration_stats[1] IN
        /\ DOMAIN stats = {key \in GroupKeys : SamplesOf(key) # {}}
        /\ \A key \in DOMAIN stats :
              /\ stats[key].count = Cardinality(SamplesOf(key))
              /\ \E j \in SamplesOf(key) :
                    /\ stats[key].min = DurationOf(j)
                    /\ \A i \in SamplesOf(key) : DurationOf(j) <= DurationOf(i)
              /\ \E j \in SamplesOf(key) :
                    /\ stats[key].max = DurationOf(j)
                    /\ \A i \in SamplesOf(key) : DurationOf(j) >= DurationOf(i)
              /\ stats[key].mean.num = SumOver(SamplesOf(key))
              /\ stats[key].mean.den = Cardinality(SamplesOf(key))

\* durations 100, 200, 300 of one group give mean 200, min 100, max 300,
\* count 3
C13_Witness ==
    /\ duration_stats # None
    /\ Len(alarms) = 3
    /\ \A j \in 1..3 : alarms[j].alarm_type = "Fault" /\ alarms[j].duration_ms = Some(100 * j)
    /\ duration_stats[1][<<"MMA", "Fault">>].mean.num =
          200 * duration_stats[1][<<"MMA", "Fault">>].mean.den
    /\ duration_stats[1][<<"MMA", "Fault">>].min = 100
    /\ duration_stats[1][<<"MMA", "Fault">>].max = 300
    /\ duration_stats[1][<<"MMA", "Fault">>].count = 3

\* the records of a group in the order they stand in parser.alarms
GroupList(key) == SelectSeq(alarms, LAMBDA a : PatternKey(a) = key)

\* C14: get_common_alarms has an entry exactly for the groups of 5 or more
\* records, and the entry is the first min(10, group size) records of the
\* group in insertion order.
C14_CommonPatterns ==
    common_patterns # None =>
        LET common == common_patterns[1] IN
        /\ DOMAIN common = {key \in GroupKeys : Cardinality(GroupOf(key)) >= 5}
        /\ \A key \in DOMAIN common :
              /\ Len(common[key]) =
                    (IF Cardinality(GroupOf(key)) < 10 THEN Cardinality(GroupOf(key)) ELSE 10)
              /\ \A n \in 1..Len(common[key]) : common[key][n] = GroupList(key)[n]

\* a group of 12 has given its first 10 records
C14_Witness ==
    /\ common_patterns # None
    /\ Cardinality(GroupOf(<<"MMA", "Warning">>)) = 12
    /\ Len(common_patterns[1][<<"MMA", "Warning">>]) = 10
    /\ \A n \in 1..10 : common_patterns[1][<<"MMA", "Warning">>][n].msg_nr = n

(***************************************************************************)
(* Properties of the message-to-tag mapping                                *)
(***************************************************************************)
\* the nodes a call has written, and the values it has written to a node
LoggedTags(call) == {tag_log[k][2] : k \in {i \in 1..Len(tag_log) : tag_log[i][1] = call}}
LoggedValues(call, tag) ==
    {tag_log[k][3] : k \in {i \in 1..Len(tag_log) :
                                tag_log[i][1] = call /\ tag_log[i][2] = tag}}

\* the value a node is created with
NominalValue(tag) ==
    CASE tag \in {"MMA.Fault_Routine_Active", "MMA.Manual_Override"} -> FALSE
      [] tag \in {"MMA.Air_Dehumidifier", "MMA.Guard_Door_1", "MMA.Container_Transfer",
                  "MMA.Cap_Feed_Unit"} -> TRUE
      [] tag = "MMA.Level_LT100" -> 50
      [] tag = "BAS.BCM_Server_Status" -> "ONLINE"
      [] tag = "BAS.Communication_Health" -> 100
      [] tag \in {"SDC.Power_Supply_Status", "SDC.Servo_Drive_Status"} -> "OK"
      [] tag = "SDC.Service_Brake_Torque" -> 100
      [] OTHER -> 0

\* C25: clearing a record writes exactly the nodes that activating it has
\* written, each with its nominal value, and no other node.
C25_ClearInvertsActivation ==
    current_alarms = <<>> =>
        /\ LoggedTags("clear") = LoggedTags("activate")
        /\ \A tag \in LoggedTags("clear") : LoggedValues("clear", tag) = {NominalValue(tag)}

\* the nodes _activate_alarm writes for a record
WrittenNodes(alarm) ==
    UNION {{ActivationWrites(alarm, d)[k][1] : k \in 1..Len(ActivationWrites(alarm, d))} :
              d \in Deviations}

StationNode(n) ==
    CASE n = "12" -> "SBC.Stretching_Drive_12"
      [] n = "13" -> "SBC.Stretching_Drive_13"
      [] n = "14" -> "SBC.Stretching_Drive_14"

StationPhrase(n) ==
    CASE n = "12" -> "station: 12"
      [] n = "13" -> "station: 13"
      [] n = "14" -> "station: 14"

\* C26: the mapping does not depend on letter case.  Once the record is
\* activated, the nodes written are those that are written for every record
\* of the same module whose message is the same up to case; a BAS message
\* with "BCM server" in any case writes BCM_Server_Status OFFLINE and
\* Communication_Health 0; an SBC stretching-drive message that names station
\* 12, 13 or 14 writes that station's node and Position_Deviation.
C26_CaseInsensitive ==
    current_alarms # <<>> =>
        LET alarm == alarms[current_alarms[1]]
            low == Lower(alarm.message)
        IN  /\ \A message \in MappingMessages :
                  Lower(message) = low =>
                      WrittenNodes(MappingRecord(alarm.module, message)) = LoggedTags("activate")
            /\ (alarm.module = "BAS" /\ Contains(low, "bcm server")) =>
                  /\ LoggedValues("activate", "BAS.BCM_Server_Status") = {"OFFLINE"}
                  /\ LoggedValues("activate", "BAS.Communication_Health") = {0}
            /\ \A n \in {"12", "13", "14"} :
                  (/\ alarm.module = "SBC"
                   /\ Contains(low, "stretching drive")
                   /\ Contains(low, StationPhrase(n))) =>
                      {StationNode(n), "SBC.Position_Deviation"} \subseteq LoggedTags("activate")

\* the rule table of _activate_alarm in the order of its tests: the module,
\* the text looked for in the lower-cased message, the text looked for in
\* the message as it is (if any), and the nodes the rule writes
Rule(module, needle, exact, nodes) ==
    [module |-> module, needle |-> needle, exact |-> exact, nodes |-> nodes]

MappingRules ==
    << Rule("MMA", "fault routine", "", {"MMA.Fault_Routine_Active"}),
       Rule("MMA", "manual", "", {"MMA.Manual_Override"}),
       Rule("MMA", "dehumidifier", "", {"MMA.Air_Dehumidifier"}),
       Rule("MMA", "guard door", "", {"MMA.Guard_Door_1"}),
       Rule("MMA", "level", "LT100", {"MMA.Level_LT100"}),
       Rule("MMA", "container transfer", "", {"MMA.Container_Transfer"}),
       Rule("MMA", "cap feed", "", {"MMA.Cap_Feed_Unit"}),
       Rule("BAS", "BCM server", "", {"BAS.BCM_Server_Status", "BAS.Communication_Health"}),
       Rule("SDC", "power supply", "", {"SDC.Power_Supply_Status"}),
       Rule("SDC", "servo drive", "", {"SDC.Servo_Drive_Status"}),
       Rule("SDC", "brake", "", {"SDC.Service_Brake_Torque"}),
       Rule("SBC", "stretching drive", "", {"SBC.Position_Deviation"}) >>

StationNodes == {StationNode(n) : n \in {"12", "13", "14"}}

\* the rules of the record's own module whose test the message passes
ApplyingRules(alarm) ==
    {k \in 1..Len(MappingRules) :
        /\ MappingRules[k].module = alarm.module
        /\ Contains(Lower(alarm.message), MappingRules[k].needle)
        /\ MappingRules[k].exact # "" => Contains(alarm.message, MappingRules[k].exact)}

\* C27: the rules of a module are tried top to bottom and the first whose
\* test the message passes is the only one applied: the activation writes
\* the nodes of that rule (for the stretching-drive rule also at most one
\* station node), nothing when no rule of the record's module applies, and
\* never a node of a rule of another module.
C27_FirstMatchWins ==
    current_alarms # <<>> =>
        LET alarm == alarms[current_alarms[1]]
            applying == ApplyingRules(alarm)
            written == LoggedTags("activate")
        IN  IF applying = {} THEN written = {}
            ELSE LET first == CHOOSE k \in applying : \A q \in applying : k <= q
                 IN  /\ written \ StationNodes = MappingRules[first].nodes
                     /\ Cardinality(written \cap StationNodes) <= 1
                     /\ written \cap StationNodes # {} =>
                           MappingRules[first].needle = "stretching drive"

\* an MMA message with "guard door" and "fault routine" has been activated
\* and only Fault_Routine_Active is written
C27_Witness ==
    /\ current_alarms = <<1>>
    /\ alarms[1].module = "MMA"
    /\ alarms[1].message = <<"Guard door", "Fault routine">>
    /\ LoggedTags("activate") = {"MMA.Fault_Routine_Active"}
    /\ Cardinality(ApplyingRules(alarms[1])) = 2

(***************************************************************************)
(* Properties of the scenario scripts and of the engine's tasks            *)
(***************************************************************************)
\* a scenario is mid-execution: it has written Line_State STOPPED and has not
\* yet written Line_State RUNNING
MidExecution(s) == frames[s].ip > 1 /\ frames[s].ip <= Len(Script(s))

\* a step starts scenario s
Starts(s) == frames'[s].ip = 1 /\ frames[s].ip # 1

\* C1: at most one scenario script is mid-execution, and a scenario is never
\* started while a scenario has written STOPPED but not yet RUNNING.
C1_ScenarioExclusive ==
    /\ [](Cardinality({s \in Scenarios : MidExecution(s)}) <= 1)
    /\ [][\A s \in Scenarios : Starts(s) => \A t \in Scenarios : ~MidExecution(t)]_vars

\* scenario B is mid-execution after scenario A has run to its end
C1_Witness == MidExecution("B") /\ scenario_toggle /\ ~MidExecution("A")

\* C2: while a scenario is mid-execution the production process never writes
\* Line_State: the value Line_State holds was written by the scenario.
C2_ProductionSilent ==
    \A s \in Scenarios : MidExecution(s) => line_writer = "scenario"

\* C3: current_alarms is mutated by the alarm replay process only: every step
\* of the production process, of the metrics process, of a scenario script
\* and of the clock leaves it unchanged, and a step that changes it is an
\* activation or a clear of the alarm replay process.
C3_SingleOwner ==
    [][/\ (Production \/ Metrics \/ Scenario \/ Tick) => current_alarms' = current_alarms
       /\ current_alarms' # current_alarms =>
             (SeqActivate \/ ClearRandomAlarm \/ TriggerRandomAlarm)]_vars

\* the production task has seen a fault among several active alarms
C3_Witness ==
    /\ Len(current_alarms) >= 2
    /\ tags["MMA.State"] = "FAULT"
    /\ prod_pc = "p_rate"

ExpectedWritesA ==
    << <<"Process.Line_State", "STOPPED">>,
       <<"MMA.MotorProtector_100", TRUE>>, <<"MMA.MotorProtector_101", TRUE>>,
       <<"MMA.MotorProtector_103", TRUE>>, <<"MMA.ESTOP_Triggered", TRUE>>,
       <<"BAS.PowerLoss", TRUE>>, <<"BAS.ProfibusFault", TRUE>>,
       <<"dwell", TRUE>>,
       <<"MMA.MotorProtector_100", FALSE>>, <<"MMA.MotorProtector_101", FALSE>>,
       <<"MMA.MotorProtector_103", FALSE>>, <<"MMA.ESTOP_Triggered", FALSE>>,
       <<"BAS.PowerLoss", FALSE>>, <<"BAS.ProfibusFault", FALSE>>,
       <<"Process.Line_State", "RUNNING">> >>

ExpectedWritesB ==
    << <<"Process.Line_State", "STOPPED">>,
       <<"MMA.LevelTooHigh_LT100", TRUE>>, <<"MMA.GuardDoorOpen_1", TRUE>>,
       <<"MMA.OperatorPanelAccess", TRUE>>, <<"MMA.GuardDoorReset", TRUE>>,
       <<"dwell", TRUE>>,
       <<"MMA.LevelTooHigh_LT100", FALSE>>, <<"MMA.GuardDoorOpen_1", FALSE>>,
       <<"MMA.OperatorPanelAccess", FALSE>>, <<"MMA.GuardDoorReset", FALSE>>,
       <<"Process.Line_State", "RUNNING">> >>

ExpectedWrites(s) == IF s = "A" THEN ExpectedWritesA ELSE ExpectedWritesB

SymptomTags(s) ==
    IF s = "A"
    THEN {"MMA.MotorProtector_100", "MMA.MotorProtector_101", "MMA.MotorProtector_103",
          "MMA.ESTOP_Triggered", "BAS.PowerLoss", "BAS.ProfibusFault"}
    ELSE {"MMA.LevelTooHigh_LT100", "MMA.GuardDoorOpen_1", "MMA.OperatorPanelAccess",
          "MMA.GuardDoorReset"}

IsPrefix(a, b) == Len(a) <= Len(b) /\ \A k \in 1..Len(a) : a[k] = b[k]

\* C15: with n active alarms the production task sets the production rate to
\* 18000 times the efficiency max(0.2, 1.0 - 0.1 * n): 1800 * (10 - n) up to
\* n = 8 and 3600, the floor, from there on (never below 3600, never above
\* 18000).
C15_RateFromEfficiency ==
    prod_pc # "p_rate" =>
        /\ production_rate =
              1800 * (IF Len(current_alarms) >= 8 THEN 2 ELSE 10 - Len(current_alarms))
        /\ production_rate >= 3600
        /\ production_rate <= 18000

C17_TickContinues ==
    [][failures' # failures =>
          /\ ProdRate => prod_pc' = "p_state"
          /\ ProdState => prod_pc' # "p_rate" \/ prod_pc' = prod_pc
          /\ (SeqActivate \/ ClearNodeWrites \/ TriggerRandomAlarm) =>
                alarm_pc' \in {"a_seq_act", "a_clear", "a_random", "a_counters"}]_vars

\* the bounds of the model keep the task from its next step
ProductionCapped ==
    total_production + ProductionRate(Len(current_alarms)) > MaxProduction
ReplayCapped == Len(current_alarms) >= MaxActive

C19_SilentAfterStop ==
    [][server_stopped => tags' = tags /\ line_writer' = line_writer]_vars

\* C20: when no alarm data could be loaded the production and the metrics
\* task still run, on an empty active-alarm list.
C20_DataFreeSimulation ==
    (load_result = Some(FALSE) /\ ~server_stopped) =>
        /\ simulation_running
        /\ prod_pc # "off"
        /\ metrics_pc # "off"
        /\ current_alarms = <<>>

\* lst without its i-th element
Without(lst, i) == SubSeq(lst, 1, i - 1) \o SubSeq(lst, i + 1, Len(lst))

\* C21: a record is cleared only while it is active, and nothing is
\* activated while a clear is under way.  A clear begins by taking one entry
\* of the chosen record out of current_alarms, where it stood; every other
\* change of current_alarms appends one record; and from the choice of the
\* record until its last node write no step changes current_alarms.  So
\* the clears of a record never outnumber its activations.
C21_ClearedWhileActive ==
    [][/\ (clearing = 0 /\ clearing' # 0) =>
             \E i \in 1..Len(current_alarms) :
                 /\ alarms[current_alarms[i]] = alarms[clearing']
                 /\ current_alarms' = Without(current_alarms, i)
       /\ (current_alarms' # current_alarms /\ ~(clearing = 0 /\ clearing' # 0)) =>
             \E ref \in 1..Len(alarms) : current_alarms' = Append(current_alarms, ref)
       /\ clearing # 0 => current_alarms' = current_alarms]_vars

\* a clear is under way, between list.remove and its node writes, while
\* another alarm is active and the production task is in the middle of a tick
C21_Witness ==
    /\ clearing # 0
    /\ alarm_pc = "a_clear_nodes"
    /\ current_alarms # <<>>
    /\ prod_pc = "p_state"

\* C22: the scenarios are started in strict alternation beginning with A:
\* the first scenario started is A, a scenario is never started twice in a
\* row, and a scenario is started only when more than 30 s have passed since
\* the scenario before it was started.
C22_StrictAlternation ==
    [][\A s \in Scenarios :
          Starts(s) =>
              IF last_trigger.scenario = "" THEN s = "A"
              ELSE /\ last_trigger.scenario # s
                   /\ last_trigger.since > ScenarioInterval]_vars

\* C24: the active alarms are a set: no record is in current_alarms more
\* than once.
C24_ActiveIsSet ==
    \A i \in 1..Len(current_alarms) : \A j \in 1..Len(current_alarms) :
        i # j => /\ current_alarms[i] # current_alarms[j]
                 /\ alarms[current_alarms[i]] # alarms[current_alarms[j]]

\* the active alarms whose type satisfies a test, counted with multiplicity
ActiveOfTypes(lst, types) ==
    Cardinality({k \in 1..Len(lst) : alarms[lst[k]].alarm_type \in types})

\* C28: a completed alarm replay tick leaves the counters equal to the
\* active alarms: Active_Alarms is their number, Warning_Count the number of
\* those of type Warning, Fault_Count the number of those of type Fault or
\* FirstFault.
C28_CountersMatch ==
    [][(alarm_pc = "a_counters" /\ alarm_pc' = "a_loop" /\ failures' = failures) =>
          /\ tags'["MMA.Active_Alarms"] = Len(current_alarms')
          /\ tags'["MMA.Warning_Count"] = ActiveOfTypes(current_alarms', {"Warning"})
          /\ tags'["MMA.Fault_Count"] =
                ActiveOfTypes(current_alarms', {"Fault", "FirstFault"})]_vars

\* a tick has ended with five active alarms, a Fault and a FirstFault among
\* them, and the counters say 5, 2 warnings, 2 faults
C28_Witness ==
    /\ alarm_pc = "a_loop"
    /\ Len(current_alarms) = 5
    /\ \E k \in 1..5 : alarms[current_alarms[k]].alarm_type = "FirstFault"
    /\ \E k \in 1..5 : alarms[current_alarms[k]].alarm_type = "Fault"
    /\ tags["MMA.Active_Alarms"] = 5
    /\ tags["MMA.Warning_Count"] = 2
    /\ tags["MMA.Fault_Count"] = 2

\* sequence[:5] of a cascading sequence
FirstFive(sq) == SubSeq(sq, 1, IF Len(sq) < 5 THEN Len(sq) ELSE 5)

\* the last n elements of a list
Tail_n(lst, n) == SubSeq(lst, Len(lst) - n + 1, Len(lst))

\* C29: a replay activates the first min(5, length) members of the chosen
\* sequence in order and no later member.  The members a replay has
\* activated are at every moment a beginning of the first five of a
\* sequence and the end of the list of active alarms while the replay runs;
\* a replay returns when all of the first min(5, length) are activated.
C29_ReplayFirstFive ==
    /\ [](\E k \in 1..Len(alarm_sequences) :
             IsPrefix(replayed, FirstFive(alarm_sequences[k])) \/ replayed = <<>>)
    /\ [](alarm_pc = "a_seq_act" =>
             /\ IsPrefix(replayed, FirstFive(alarm_sequences[seq_cursor[1]]))
             /\ Len(replayed) < Len(FirstFive(alarm_sequences[seq_cursor[1]]))
             /\ Len(replayed) <= Len(current_alarms)
             /\ Tail_n(current_alarms, Len(replayed)) = replayed)
    /\ [][(alarm_pc = "a_seq_act" /\ alarm_pc' = "a_clear") =>
             /\ replayed' = FirstFive(alarm_sequences[seq_cursor[1]])
             /\ current_alarms' =
                   SubSeq(current_alarms, 1, Len(current_alarms) - Len(replayed))
                       \o replayed']_vars

\* a replay of the sequence of six has returned, with the first five
\* appended to two alarms that were active before
C29_Witness ==
    /\ alarm_pc = "a_clear"
    /\ Len(current_alarms) = 7
    /\ \E k \in 1..Len(alarm_sequences) :
          /\ Len(alarm_sequences[k]) = 6
          /\ replayed = SubSeq(alarm_sequences[k], 1, 5)
          /\ Tail_n(current_alarms, 5) = replayed

\* C30: with a cascading sequence in the index a tick may replay one or go
\* on without a replay: at the call of _trigger_alarm_sequence both
\* continuations are possible.
C30_ReplayOptional ==
    (alarm_pc = "a_seq" /\ alarm_sequences # <<>>) =>
        /\ ENABLED (TriggerAlarmSequence /\ alarm_pc' = "a_seq_act")
        /\ ENABLED (TriggerAlarmSequence /\ alarm_pc' = "a_clear")

\* C8: a scenario script does its writes in the fixed order STOPPED, the
\* symptom tags true in scripted order, the dwell, the same tags false,
\* RUNNING.  All its tags are true when the dwell begins, none is reset before
\* the dwell, and all are false once it has written RUNNING.
C8_ScriptOrder ==
    \A s \in Scenarios :
        frames[s].ip > 0 =>
            /\ IsPrefix(frames[s].log, ExpectedWrites(s))
            /\ (Len(frames[s].log) = Cardinality(SymptomTags(s)) + 2) =>
                  \A t \in SymptomTags(s) : tags[t] = TRUE
            /\ frames[s].ip > Len(Script(s)) =>
                  /\ frames[s].log = ExpectedWrites(s)
                  /\ \A t \in SymptomTags(s) : tags[t] = FALSE

\* scenario B has done all its writes, after scenario A
C8_Witness ==
    /\ frames["B"].ip > Len(ScenarioB)
    /\ scenario_toggle
    /\ frames["B"].log = ExpectedWritesB

\* C9: a started scenario always runs to completion: a script ends only after
\* it has reset every tag it asserted and has written Line_State RUNNING,
\* also when a node write inside the script fails.
C9_RunsToCompletion ==
    [][\A s \in Scenarios :
          (frames[s].ip > 0 /\ frames'[s].ip = 0 /\ ~server_stopped') =>
              /\ frames[s].ip > Len(Script(s))
              /\ \A t \in SymptomTags(s) : tags'[t] = FALSE]_vars

\* a call of the streaming part of an alarm replay tick (everything but the
\* scenario call) can take a step
ReplayTickEnabled ==
    ENABLED (\/ AlarmLoop /\ alarm_pc' = "a_seq"
             \/ TriggerAlarmSequence \/ SeqActivate \/ ClearRandomAlarm
             \/ ClearNodeWrites \/ TriggerRandomAlarm \/ UpdateAlarmCounters)

\* C31: the scenario scheduler is independent of the alarm replay process:
\* while a scenario is mid-execution the alarm replay process keeps
\* performing its ticks, so that alarms can be activated and cleared between
\* the STOPPED and the RUNNING write of the scenario.
C31_ReplayDuringScenario ==
    \A s \in Scenarios :
        (MidExecution(s) /\ ~ReplayCapped) => ReplayTickEnabled

\* C32: on every production tick the machine-state label written is FAULT
\* if an active alarm has a type containing "Fault", otherwise WARNING if an
\* alarm is active, otherwise RUNNING if the production rate is above 1000,
\* otherwise STOPPED; a completed tick writes the label exactly once: the
\* label is written by the one step that takes the tick past its State write
\* and by no other step.
C32_MachineStateLabel ==
    [][/\ (prod_pc = "p_state" /\ prod_pc' # "p_state" /\ failures' = failures) =>
             tags'["MMA.State"] =
                 IF ActiveOfTypes(current_alarms, {"Fault", "FirstFault"}) >= 1 THEN "FAULT"
                 ELSE IF Len(current_alarms) >= 1 THEN "WARNING"
                 ELSE IF production_rate > 1000 THEN "RUNNING"
                 ELSE "STOPPED"
       /\ tags'["MMA.State"] # tags["MMA.State"] =>
             prod_pc = "p_state" /\ prod_pc' # "p_state"
       /\ (prod_pc = "p_rate" /\ prod_pc' # "p_rate") => prod_pc' = "p_state"]_vars

\* a tick that is not the first has written FAULT, with a warning and a
\* fault active
C32_Witness ==
    /\ tags["MMA.State"] = "FAULT"
    /\ prod_pc = "p_rate"
    /\ total_production > production_rate
    /\ ActiveOfTypes(current_alarms, {"Warning"}) >= 1
    /\ ActiveOfTypes(current_alarms, {"Fault"}) >= 1

C34_OeeComponents ==
    /\ [](LET n == Len(current_alarms)
              f == ActiveOfTypes(current_alarms, {"Fault", "FirstFault"})
              a == AvailabilityOf(n)
              p == PerformanceOf(production_rate)
              q == QualityOf(f)
              oee == OeeOf(a, p, q)
          IN  /\ a = (IF n >= 10 THEN 0 ELSE 10 - n)
              /\ p = production_rate
              /\ q = (IF f >= 3 THEN 17 ELSE 20 - f)
              /\ a >= 0 /\ a <= 10
              /\ p >= 0 /\ p <= BaseProductionRate
              /\ q >= 17 /\ q <= 20
              /\ oee >= 0 /\ oee <= OeeScale
              /\ oee <= a * (OeeScale \div 10)
              /\ oee <= p * (OeeScale \div BaseProductionRate)
              /\ oee <= q * (OeeScale \div 20))
    /\ [][(MetricsTick /\ failures' = failures) =>
             LET n == Len(current_alarms)
                 f == ActiveOfTypes(current_alarms, {"Fault", "FirstFault"})
                 exact_oee == (IF n >= 10 THEN 0 ELSE 10 - n) * production_rate
                                  * (IF f >= 3 THEN 17 ELSE 20 - f)
             IN  /\ tags'["Process.Availability"] = (IF n >= 10 THEN 0 ELSE 1000 - 100 * n)
                 /\ tags'["Process.Quality"] = (IF f >= 3 THEN 850 ELSE 1000 - 50 * f)
                 /\ 2 * (18 * tags'["Process.Performance"] - production_rate) \in -18..18
                 /\ 2 * (3600 * tags'["Process.OEE"] - exact_oee) \in -3600..3600
                 /\ \A t \in DOMAIN MetricTags : tags'[t] >= 0 /\ tags'[t] <= 1000
                 /\ tags'["Process.Quality"] >= 850
                 /\ tags'["Process.OEE"] <= tags'["Process.Availability"]
                 /\ tags'["Process.OEE"] <= tags'["Process.Performance"]
                 /\ tags'["Process.OEE"] <= tags'["Process.Quality"]]_vars

\* a tick has written the metrics of four active alarms, two of them faults,
\* at the rate of 16200 a production tick had set with one alarm active
C34_Witness ==
    /\ Len(current_alarms) = 4
    /\ ActiveOfTypes(current_alarms, {"Fault", "FirstFault"}) = 2
    /\ production_rate = 16200
    /\ tags["Process.Availability"] = 600
    /\ tags["Process.Performance"] = 900
    /\ tags["Process.Quality"] = 900
    /\ tags["Process.OEE"] = 486

\* the records new stand, in file order, for the rows of df in rows, and
\* their timestamps are the ones of the row: an activation or a clear text
\* that matches no format has become the wall-clock time, a missing clear
\* cell has become no clear time
RecordsFollowRows(df, rows, new) ==
    /\ Len(new) = Cardinality(rows)
    /\ \A n \in 1..Len(new) :
          LET row == df[CHOOSE k \in rows : Cardinality({i \in rows : i <= k}) = n]
              rec == new[n]
          IN  /\ rec.sw_ref = row.SWRef
              /\ IF row.Comes.kind = "bad"
                 THEN rec.comes_timestamp \in WallClock
                 ELSE rec.comes_timestamp = row.Comes.v
              /\ row.Goes = NaN => rec.goes_timestamp = None
              /\ row.Goes.kind = "bad" =>
                    rec.goes_timestamp \in {Some(now) : now \in WallClock}
              /\ row.Goes.kind \in {"ms", "sec"} => rec.goes_timestamp = Some(row.Goes.v)

\* the qualifying rows whose fields other than the timestamps can be extracted
WellFormed(df) == {k \in Qualifying(df) : df[k].MsgNr.kind = "num"}

\* C35 as stated: a qualifying row is never rejected because of its
\* timestamps.  Every qualifying row whose other fields can be extracted
\* yields a record: with the wall-clock time as activation time when the
\* activation text matches neither format, with no clear time when the clear
\* cell is missing, with the wall-clock time as clear time when the clear
\* text matches neither format.
C35_NeverRejected ==
    [][(loads' = loads + 1 /\ csv # None) =>
          RecordsFollowRows(csv[1], WellFormed(csv[1]),
                            SubSeq(alarms', Len(alarms) + 1, Len(alarms')))]_vars

\* C35, amended: a qualifying row whose activation cell is present is never
\* rejected because of its timestamps, with the substitutions above; a
\* qualifying row whose activation cell is missing yields no record.
C35_TimestampsTolerated ==
    [][(loads' = loads + 1 /\ csv # None) =>
          RecordsFollowRows(csv[1], WellFormed(csv[1]) \cap HasActivation(csv[1]),
                            SubSeq(alarms', Len(alarms) + 1, Len(alarms')))]_vars

\* a row with two unparseable timestamps and a row without a clear
\* timestamp have been loaded, a row without activation timestamp between
\* them has not
C35_Witness ==
    /\ loads = 1
    /\ csv # None
    /\ Len(csv[1]) = 3
    /\ csv[1][1].Comes.kind = "bad" /\ csv[1][1].Goes.kind = "bad"
    /\ csv[1][2].Comes = NaN /\ 2 \in Qualifying(csv[1])
    /\ csv[1][3].Goes = NaN /\ 3 \in Yielding(csv[1])
    /\ Len(alarms) = 2
    /\ alarms[1].comes_timestamp \in WallClock
    /\ alarms[1].goes_timestamp \in {Some(now) : now \in WallClock}
    /\ alarms[2].goes_timestamp = None

\* an alarm replay tick completes: its counter writes are done and the loop
\* goes to its sleep
TickCompletes == alarm_pc = "a_counters" /\ alarm_pc' = "a_loop" /\ failures' = failures

\* ten alarms or more are active: the availability and the OEE a metrics
\* tick computes are 0
FloodedOut ==
    /\ Len(current_alarms) >= 10
    /\ AvailabilityOf(Len(current_alarms)) = 0
    /\ OeeOf(AvailabilityOf(Len(current_alarms)), PerformanceOf(production_rate),
             QualityOf(FaultCount(current_alarms, alarms))) = 0

\* C36: the number of active alarms after a completed alarm replay tick
\* follows a fixed law.  With a cascading sequence in the index a completed
\* tick has replayed 3 to 5 members, cleared one alarm and activated one:
\* it leaves 3 to 5 alarms more than the tick before it left (as the
\* Active_Alarms counter still tells, in a run without failed writes), so
\* the count comes to 10 and beyond and stays there, and availability and
\* OEE are 0 from then on.  Without a sequence and with a non-empty pool the
\* count is 1 after every completed tick; with an empty pool it stays 0.
C36_GrowthLaw ==
    /\ [][(TickCompletes /\ alarm_sequences # <<>>) =>
             /\ Len(replayed) \in 3..5
             /\ failures = 0 =>
                   Len(current_alarms') - tags["MMA.Active_Alarms"] \in 3..5]_vars
    /\ [][(alarm_sequences # <<>> /\ alarm_pc' = "a_loop") =>
             Len(current_alarms') >= tags["MMA.Active_Alarms"]]_vars
    /\ [][(TickCompletes /\ alarm_sequences = <<>> /\ alarms # <<>>) =>
             Len(current_alarms') = 1]_vars
    /\ [](alarms = <<>> => current_alarms = <<>>)
    /\ <>[](alarm_sequences = <<>> \/ FloodedOut)

\* the second tick on the sequence of six has completed: ten alarms are
\* active, five more than the first tick left
C36_Witness ==
    /\ alarm_pc = "a_loop"
    /\ Len(alarm_sequences) = 1
    /\ Len(alarm_sequences[1]) = 6
    /\ Len(current_alarms) = 10
    /\ tags["MMA.Active_Alarms"] = 10
    /\ failures = 0

\* C37: the production task never takes its STOPPED branch.  Every rate it
\* computes lies between 3600 and 18000, so from its first tick on the rate
\* is above 1000: a tick that writes the machine-state label writes FAULT,
\* WARNING or RUNNING, a tick that writes Line_State writes RUNNING, and
\* Line_State turns to STOPPED only by a step of a scenario script.
C37_StoppedOnlyByScenarios ==
    /\ [][prod_pc' = "p_state" =>
             production_rate' \in (BaseProductionRate \div 5)..BaseProductionRate]_vars
    /\ [](production_rate = 0 \/ production_rate > 1000)
    /\ [](production_rate = 0 => total_production = 0 /\ prod_pc = "p_rate")
    /\ [][(prod_pc = "p_state" /\ prod_pc' # "p_state" /\ failures' = failures) =>
             tags'["MMA.State"] \in {"FAULT", "WARNING", "RUNNING"}]_vars
    /\ [][(prod_pc = "p_line" /\ prod_pc' # "p_line" /\ failures' = failures) =>
             tags'["Process.Line_State"] = "RUNNING"]_vars
    /\ [](tags["Process.Line_State"] = "STOPPED" => line_writer = "scenario")
    /\ [][(tags'["Process.Line_State"] = "STOPPED" /\ tags["Process.Line_State"] # "STOPPED") =>
             \E s \in Scenarios : Running(s) /\ frames'[s] # frames[s]]_vars

\* with eight or more alarms active the production task has ticked at the
\* lowest rate, 3600, and written its label, while a scenario script has
\* stopped the line
C37_Witness ==
    /\ Len(current_alarms) >= 8
    /\ production_rate = BaseProductionRate \div 5
    /\ total_production > 0
    /\ prod_pc = "p_rate"
    /\ tags["MMA.State"] \in {"FAULT", "WARNING"}
    /\ tags["Process.Line_State"] = "STOPPED"
    /\ line_writer = "scenario"

\* C38: at the end of a tick of the alarm replay, in a run in which no write
\* has raised, a symptom node that does not hold the value it was created
\* with is written by the activation of an alarm that is active.
C38_SymptomsHaveAlarm ==
    (alarm_pc = "a_loop" /\ failures = 0) =>
        \A tag \in DOMAIN SymptomNodes :
            tags[tag] # NominalValue(tag) =>
                \E i \in 1..Len(current_alarms) :
                    tag \in WrittenNodes(alarms[current_alarms[i]])

\* a tick has ended with the stretching drive of station 12 off its position
\* and its alarm active, after the clearing of one guard-door alarm has
\* closed the guard door while the other guard-door alarm is still active
C38_Witness ==
    /\ alarm_pc = "a_loop"
    /\ failures = 0
    /\ tags["SBC.Stretching_Drive_12"] # 0
    /\ \E i \in 1..Len(current_alarms) :
          LET nodes == WrittenNodes(alarms[current_alarms[i]])
          IN  /\ nodes = {"MMA.Guard_Door_1"}
              /\ \A tag \in nodes : tags[tag] = NominalValue(tag)

\* stop_server() was called while the tasks of run_simulation() existed
StopServerCalled == server_stopped /\ prod_pc # "off"

\* the alarm replay task is inside a tick at an activation that the bound on
\* current_alarms keeps the model from following
ReplayBlocked == alarm_pc \in {"a_seq_act", "a_random"} /\ ReplayCapped

\* the coroutines gathered by run_simulation() are done (the alarm replay
\* task as far as the model follows it) and no script is in progress
ShutDown ==
    /\ prod_pc = "done"
    /\ metrics_pc = "done"
    /\ alarm_pc = "done" \/ ReplayBlocked
    /\ \A s \in Scenarios : ~Running(s)

\* C39: stop_server() ends the engine.  Once it has cleared
\* simulation_running no loop starts a tick; each loop finishes the tick it
\* is in and leaves its while, for good; a scenario script that is in
\* progress goes on to its end, which without a raising write is its
\* Line_State RUNNING write; so the three coroutines are done and
\* run_simulation() returns.
C39_ShutdownTerminates ==
    /\ StopServerCalled ~> ShutDown
    /\ [][~simulation_running =>
             /\ prod_pc = "p_rate" =>
                   prod_pc' \in {"p_rate", "done", "off"}
                   /\ UNCHANGED <<production_rate, total_production>>
             /\ alarm_pc = "a_loop" => alarm_pc' \in {"a_loop", "done", "off"}
             /\ prod_pc = "done" => prod_pc' = "done"
             /\ metrics_pc = "done" => metrics_pc' = "done"
             /\ alarm_pc = "done" => alarm_pc' = "done"]_vars
    /\ [][\A s \in Scenarios :
             (StopServerCalled /\ Running(s) /\ ~Running(s)' /\ failures' = failures) =>
                 /\ frames[s].ip > Len(Script(s))
                 /\ frames[s].log = ExpectedWrites(s)
                 /\ tags["Process.Line_State"] = "RUNNING"
                 /\ alarm_pc' = "a_seq"]_vars

\* the server was stopped while a scenario script was in progress: the
\* production and the metrics loop have left their while and the script is
\* at its last await, the Line_State RUNNING write
C39_Witness ==
    /\ StopServerCalled
    /\ prod_pc = "done"
    /\ metrics_pc = "done"
    /\ alarm_pc = "a_scenario"
    /\ \E s \in Scenarios : frames[s].ip = Len(Script(s))

====
